---- MODULE Spec2Model ----
(***************************************************************************)
(* Band-matrix OKVS (newokvs): row derivation, encoder (triangularize and  *)
(* back-substitute) and decoder, modelled from src/newokvs/src/newokvs.rs, *)
(* okvs.rs and utils/dot_u64_generic.rs, utils/xor_u64s.rs.                *)
(*                                                                         *)
(* A Bucket (u64) is the set of its set bit positions, a subset of 0..63.  *)
(* A Value (Block, u128) is a natural number; XOR is computed bit by bit.  *)
(* usize quantities are naturals and arithmetic is checked, as in a build  *)
(* with overflow checks (cargo build, cargo test): a subtraction that      *)
(* would go below zero, or a remainder by zero, is the fault "overflow" at *)
(* the place where it would happen.                                        *)
(* The key hash (BLAKE3 XOF / fixed-key AES) is an oracle: the raw output  *)
(* for a key is chosen when the key is first hashed and then remembered.   *)
(* row_k_wrapping is row_k in a build without overflow checks.             *)
(* The BufferedRandomGenerator of hash.rs, the Block path of hash_row_k    *)
(* (with aes.rs), the test OKVS_encode and the BitString of bitstring.rs   *)
(* have sections of their own.                                             *)
(***************************************************************************)
EXTENDS Integers, Sequences, FiniteSets, TLC

\* ---------------------------------------------------------------- constants
SNAP_LEN == 64

BUFFER_LENGTH_U128 == 512

\* ------------------------------------------------------------------- bounds
\* largest number of (key, value) pairs handed to encode
MaxN == 3
\* number of distinct keys; keys are 0 .. NumKeys-1
NumKeys == 3
\* largest band width the encoder is constructed with (OKVS::new takes any)
MaxWidth == 3
\* the raw offsets of a key repeat a bit pattern of this period
PatBits == 2
\* epsilon is EpsNum / EpsDen; with a dyadic epsilon the f64 product
\* n * (1.0 + epsilon) of encode is exact
EpsDen == 8
\* decode calls made on a returned store
MaxDecodes == 1
\* largest width and largest raw start index row_k is applied to on its own
MaxRowWidth == 131
MaxRowStart == 70
\* longest key list handed to decode_many, and the threads decoding it
MaxDecodeKeys == 2
NumWorkers == 2
\* largest len handed to the xor_u64s_inplace kernels on their own
MaxXorLen == 9
\* seeds a BufferedRandomGenerator is created from (0 .. NumSeeds-1), and the
\* refills one generator may make
NumSeeds == 2
MaxRefills == 2
\* stores handed to decode_many hold Block(2^((seed * position) mod StoreBits))
MaxStoreSeed == 1
StoreBits == 3
\* calls on one BitString
MaxBitOps == 4
\* numerators of epsilon: 0.5 and 34.125
EpsNums == {4, 273}
\* raw 8-byte start indices the hash may return
RawStarts == {62, 63, 192}

\* m - width of the rows derived on their own, and a raw start index beyond
\* count * SNAP_LEN
RowSpans == {1, 3, 32, 71}
RowStarts == (0 .. MaxRowStart) \cup {200}
\* lengths of the stores handed to decode_many, and the raw start indices
StoreLens == {2, 4, 67, 130}
DecodeStarts == {0, 63, 64, 126}

\* bit positions the words handed to dot_u64_generic are made of, and the
\* lengths of the slices
DotBits == {0, 1, 2, 62, 63}
DotLens == {0, 1, 3, 63, 64, 65}

Keys == 0 .. (NumKeys - 1)
Workers == 1 .. NumWorkers
Widths == 0 .. MaxWidth
Word == 0 .. (SNAP_LEN - 1)

\* ------------------------------------------------------------ word algebra
Min(S) == CHOOSE x \in S : \A y \in S : x <= y

\* a ^ b on Buckets
XorWord(a, b) == (a \ b) \cup (b \ a)

\* !((1 << sh) - 1): the bits at positions >= sh
NotLowMask(sh) == {b \in Word : b >= sh}

\* mutant: the mask keeps one bit too many
LowMask_inclusive(sh) == {b \in Word : b <= sh}

\* (1 << sh) - 1: the bits at positions < sh
LowMask(sh) == {b \in Word : b < sh}

\* u64::trailing_zeros
trailing_zeros(w) == IF w = {} THEN SNAP_LEN ELSE Min(w)

\* a ^ b on Blocks (u128), bit by bit
RECURSIVE XorVal(_, _)
XorVal(a, b) ==
    IF a = 0 THEN b
    ELSE IF b = 0 THEN a
    ELSE (((a % 2) + (b % 2)) % 2) + (2 * XorVal(a \div 2, b \div 2))

\* Block::from(u64)
BlockFrom(x) == x

\* impl Mul for Block: Block(self.0 * rhs.0)
BlockMul(a, b) == a * b

\* Value::default()
ValueDefault == 0

\* ------------------------------------------------------------ hash oracle
\* The bit pattern pat (a subset of 0 .. PatBits-1) repeated over the byte
\* stream: word t of the stream holds bit b iff (64*t + b) mod PatBits is in pat.
PatWord(pat, t) == {b \in Word : (((SNAP_LEN * t) + b) % PatBits) \in pat}

\* The raw outputs the hash may give for one key: 8 bytes of start index and
\* the following words of offsets (as many as the widest row needs).
MaxCount == ((MaxWidth - 2 + SNAP_LEN) \div SNAP_LEN) + 1
RECURSIVE PatWords(_, _)
PatWords(pat, len) ==
    IF len = 0 THEN << >> ELSE Append(PatWords(pat, len - 1), PatWord(pat, len - 1))

RawOutputs ==
    {[start |-> st, offs |-> PatWords(pat, MaxCount)] :
        st \in RawStarts, pat \in SUBSET (0 .. (PatBits - 1))}

NoHash == [start |-> 0, offs |-> << >>]

\* mutant: the generic path reduces start_index modulo count
hash_row_k_modulo_count(raw, isBlock, count) ==
    [start_index |-> IF isBlock THEN raw.start ELSE raw.start % count,
     offsets     |-> SubSeq(raw.offs, 1, count)]

\* hash_row_k: the first 8 bytes of the key's stream are start_index, the next
\* 8*count bytes are offsets; the generic (non-Block) path reduces start_index
\* modulo count * SNAP_LEN, the Block path does not.
hash_row_k(raw, isBlock, count) ==
    [start_index |-> IF isBlock THEN raw.start ELSE raw.start % (count * SNAP_LEN),
     offsets     |-> SubSeq(raw.offs, 1, count)]

\* mutant: the "+ 1" of count is missing
count_of_short(w) == (w - 2 + SNAP_LEN) \div SNAP_LEN

\* count of row_k, line 75
count_of(w) == ((w - 2 + SNAP_LEN) \div SNAP_LEN) + 1

\* last_index of row_k, line 79
last_index_of(start_index, w) == ((start_index % SNAP_LEN) + w) \div SNAP_LEN

\* row_k. fault is "none", or names the panic the code would raise:
\* "overflow" (usize subtraction below zero, or a remainder by zero) or
\* "assert" (assert!(last_index >= count - 2)).
row_k(raw, isBlock, m, w) ==
    IF w < 2 \/ m <= w
    THEN [start_index |-> 0, offsets |-> << >>, fault |-> "overflow"]
    ELSE
    LET count == count_of(w)
        h == hash_row_k(raw, isBlock, count)
        start_index == h.start_index % (m - w)
        o1 == [h.offsets EXCEPT ![1] = @ \cap NotLowMask(start_index % SNAP_LEN)]
        last_index == last_index_of(start_index, w)
        o2 == IF last_index < count
              THEN [o1 EXCEPT ![last_index + 1] =
                        @ \cap LowMask((start_index + w) % SNAP_LEN)]
              ELSE o1
        o3 == IF last_index = count - 2
              THEN [o2 EXCEPT ![last_index + 2] = {}]
              ELSE o2
    IN  IF last_index < count - 2
        THEN [start_index |-> start_index, offsets |-> o1, fault |-> "assert"]
        ELSE [start_index |-> start_index, offsets |-> o3, fault |-> "none"]

\* row_k in a build without overflow checks (--release), where usize
\* arithmetic wraps modulo 2^64. It differs from row_k below width 2 and
\* below m = width: `width - 2 + SNAP_LEN` wraps to width + 62, so count = 1;
\* `m - width` wraps to 2^64 - (width - m), which is above every start index
\* drawn here; `count - 2` wraps to 2^64 - 1, which no last_index reaches, so
\* the assertion of line 80 fails. A remainder by zero panics in every build.
row_k_wrapping(raw, isBlock, m, w) ==
    IF w >= 2 /\ m > w THEN row_k(raw, isBlock, m, w)
    ELSE IF m = w THEN [start_index |-> 0, offsets |-> << >>, fault |-> "overflow"]
    ELSE
    LET count == IF w < 2 THEN 1 ELSE count_of(w)
        h == hash_row_k(raw, isBlock, count)
        start_index == IF m < w THEN h.start_index ELSE h.start_index % (m - w)
        o1 == [h.offsets EXCEPT ![1] = @ \cap NotLowMask(start_index % SNAP_LEN)]
        last_index == last_index_of(start_index, w)
        o2 == IF last_index < count
              THEN [o1 EXCEPT ![last_index + 1] =
                        @ \cap LowMask((start_index + w) % SNAP_LEN)]
              ELSE o1
        o3 == IF last_index = count - 2
              THEN [o2 EXCEPT ![last_index + 2] = {}]
              ELSE o2
    IN  IF w < 2 \/ last_index < count - 2
        THEN [start_index |-> start_index, offsets |-> o1, fault |-> "assert"]
        ELSE [start_index |-> start_index, offsets |-> o3, fault |-> "none"]

\* ------------------------------------------------------------------ kernels
\* mutant: the last word of the range is left out
xor_u64s_inplace_short(x, y, len) ==
    IF len > Len(x) \/ len > Len(y)
    THEN [x |-> x, fault |-> "oob"]
    ELSE [x |-> [t \in 1 .. Len(x) |->
                    IF t < len THEN (x[t] \ y[t]) \cup (y[t] \ x[t]) ELSE x[t]],
          fault |-> "none"]

\* native::xor_u64s_inplace(x, y, len): x and y are the words from the two
\* pointers on; touching a word past either allocation is the fault "oob".
xor_u64s_inplace(x, y, len) ==
    IF len > Len(x) \/ len > Len(y)
    THEN [x |-> x, fault |-> "oob"]
    ELSE [x |-> [t \in 1 .. Len(x) |->
                    IF t <= len THEN XorWord(x[t], y[t]) ELSE x[t]],
          fault |-> "none"]

\* while i < len - remainder { load, xor, store `lanes` words; i += lanes }:
\* a vector load or store that touches a word past either allocation is the
\* fault "oob"
RECURSIVE simd_loop(_, _, _, _, _)
simd_loop(x, y, at, stop, lanes) ==
    IF at >= stop THEN [x |-> x, i |-> at, fault |-> "none"]
    ELSE IF at + lanes > Len(x) \/ at + lanes > Len(y)
    THEN [x |-> x, i |-> at, fault |-> "oob"]
    ELSE simd_loop([t \in 1 .. Len(x) |->
                       IF t > at /\ t <= at + lanes THEN XorWord(x[t], y[t]) ELSE x[t]],
                   y, at + lanes, stop, lanes)

\* the body shared by avx2::xor_u64s_inplace (lanes = 4) and
\* sse2::xor_u64s_inplace (lanes = 2): the vector loop, then
\* native::xor_u64s_inplace(x.add(i), y.add(i), remainder) when remainder > 0
simd_xor_u64s_inplace(x, y, len, lanes) ==
    LET remainder == len % lanes
        body == simd_loop(x, y, 0, len - remainder, lanes)
        rest == xor_u64s_inplace(SubSeq(body.x, body.i + 1, Len(x)),
                                 SubSeq(y, body.i + 1, Len(y)), remainder)
    IN  IF body.fault # "none" THEN [x |-> body.x, fault |-> body.fault]
        ELSE IF remainder > 0
        THEN [x |-> SubSeq(body.x, 1, body.i) \o rest.x, fault |-> rest.fault]
        ELSE [x |-> body.x, fault |-> "none"]

\* mutant: the words behind the last full vector are left out
avx2_without_remainder(x, y, len) ==
    LET body == simd_loop(x, y, 0, len - (len % 4), 4)
    IN  [x |-> body.x, fault |-> body.fault]

\* avx2::xor_u64s_inplace
avx2_xor_u64s_inplace(x, y, len) == simd_xor_u64s_inplace(x, y, len, 4)

\* sse2::xor_u64s_inplace
sse2_xor_u64s_inplace(x, y, len) == simd_xor_u64s_inplace(x, y, len, 2)

\* out ^= b[i].clone() * Block::from((a >> i) & 1) for i = from .. lim-1;
\* the XOR of the terms is taken by halves, which keeps the evaluation shallow
RECURSIVE dot_terms(_, _, _, _)
dot_terms(a, b, from, lim) ==
    IF from >= lim THEN ValueDefault
    ELSE IF lim = from + 1
    THEN BlockMul(b[from + 1], BlockFrom(IF from \in a THEN 1 ELSE 0))
    ELSE XorVal(dot_terms(a, b, from, (from + lim) \div 2),
                dot_terms(a, b, (from + lim) \div 2, lim))

\* mutant: the unrolled branch lacks its last line, the term of bit 63
dot_u64_generic_short(a, b) ==
    IF Len(b) >= 64 THEN dot_terms(a, b, 0, 63) ELSE dot_terms(a, b, 0, Len(b))

\* dot_u64_generic(a, b): 64 unrolled terms when b.len() >= 64, else b.len() terms
dot_u64_generic(a, b) ==
    IF Len(b) >= 64 THEN dot_terms(a, b, 0, 64) ELSE dot_terms(a, b, 0, Len(b))

\* ------------------------------------------------------------------ encoder
\* mutant: the product is rounded down
encode_length_floor(n, eps) == (n * (EpsDen + eps)) \div EpsDen

\* m = (n as f64 * (1.0 + epsilon)).ceil() as usize, epsilon = eps / EpsDen
encode_length(n, eps) == ((n * (EpsDen + eps)) + (EpsDen - 1)) \div EpsDen

\* mutant: the assertion lets m = width pass
sanity_ge(m, w) == m >= w

\* assert!(m > self.width)
sanity(m, w) == m > w

\* mutant: r goes before the rows with an equal start_index (unstable)
insert_row_before(sorted, r) ==
    LET pos == Cardinality({t \in 1 .. Len(sorted) :
                                sorted[t].start_index < r.start_index})
    IN  SubSeq(sorted, 1, pos) \o <<r>> \o SubSeq(sorted, pos + 1, Len(sorted))

\* One insertion of the stable sort: r goes behind every row whose
\* start_index is not larger.
insert_row(sorted, r) ==
    LET pos == Cardinality({t \in 1 .. Len(sorted) :
                                sorted[t].start_index <= r.start_index})
    IN  SubSeq(sorted, 1, pos) \o <<r>> \o SubSeq(sorted, pos + 1, Len(sorted))

\* mutant: the rows are left in input order
sort_by_skipped(rows) == rows

\* rows.sort_by(|a, b| a.0.cmp(&b.0)): stable
RECURSIVE sort_by(_)
sort_by(rows) ==
    IF rows = << >> THEN << >>
    ELSE insert_row(sort_by(SubSeq(rows, 1, Len(rows) - 1)), rows[Len(rows)])

\* mutant: a row without a set bit is not noticed
pivot_search_unchecked(offs) ==
    LET nz == {t \in 1 .. Len(offs) : offs[t] # {}}
    IN  IF nz = {}
        THEN [found |-> TRUE, j |-> Len(offs) * SNAP_LEN]
        ELSE [found |-> TRUE,
              j |-> ((Min(nz) - 1) * SNAP_LEN) + Min(offs[Min(nz)])]

\* The pivot search of one row: j is the position of the lowest set bit,
\* counted from bit 0 of the row's first word; it is count * SNAP_LEN when no
\* bit is set.
pivot_search(offs) ==
    LET nz == {t \in 1 .. Len(offs) : offs[t] # {}}
    IN  IF nz = {}
        THEN [found |-> FALSE, j |-> Len(offs) * SNAP_LEN]
        ELSE [found |-> TRUE,
              j |-> ((Min(nz) - 1) * SNAP_LEN) + trailing_zeros(offs[Min(nz)])]

\* mutant: the loop also stops at a row that starts at the pivot column
RECURSIVE eliminate_stops_early(_, _, _, _, _, _)
eliminate_stops_early(k, row, j, st, offs, vals) ==
    LET i_id == st[row + 1] \div SNAP_LEN
        k_id == st[k + 1] \div SNAP_LEN
        id_offset == k_id - i_id
        word == (j \div SNAP_LEN) - id_offset
        x == xor_u64s_inplace(offs[k + 1],
                              SubSeq(offs[row + 1], id_offset + 1, Len(offs[row + 1])),
                              Len(offs[k + 1]) - id_offset)
    IN  IF k >= Len(st) THEN [offsets |-> offs, v |-> vals, fault |-> "none"]
        ELSE IF st[k + 1] >= (i_id * SNAP_LEN) + j
        THEN [offsets |-> offs, v |-> vals, fault |-> "none"]
        ELSE IF k_id < i_id \/ (j \div SNAP_LEN) < id_offset
        THEN [offsets |-> offs, v |-> vals, fault |-> "overflow"]
        ELSE IF word >= Len(offs[k + 1])
        THEN [offsets |-> offs, v |-> vals, fault |-> "oob"]
        ELSE IF (j % SNAP_LEN) \in offs[k + 1][word + 1]
        THEN IF id_offset > Len(offs[k + 1])
             THEN [offsets |-> offs, v |-> vals, fault |-> "overflow"]
             ELSE IF x.fault # "none"
             THEN [offsets |-> offs, v |-> vals, fault |-> x.fault]
             ELSE eliminate_stops_early(k + 1, row, j, st,
                            [offs EXCEPT ![k + 1] = x.x],
                            [vals EXCEPT ![k + 1] = XorVal(@, vals[row + 1])])
        ELSE eliminate_stops_early(k + 1, row, j, st, offs, vals)

\* mutant: the source pointer is offsets[i].as_ptr(), without .add(id_offset)
RECURSIVE eliminate_unshifted(_, _, _, _, _, _)
eliminate_unshifted(k, row, j, st, offs, vals) ==
    LET i_id == st[row + 1] \div SNAP_LEN
        k_id == st[k + 1] \div SNAP_LEN
        id_offset == k_id - i_id
        word == (j \div SNAP_LEN) - id_offset
        x == xor_u64s_inplace(offs[k + 1],
                              SubSeq(offs[row + 1], 1, Len(offs[row + 1])),
                              Len(offs[k + 1]) - id_offset)
    IN  IF k >= Len(st) THEN [offsets |-> offs, v |-> vals, fault |-> "none"]
        ELSE IF st[k + 1] > (i_id * SNAP_LEN) + j
        THEN [offsets |-> offs, v |-> vals, fault |-> "none"]
        ELSE IF k_id < i_id \/ (j \div SNAP_LEN) < id_offset
        THEN [offsets |-> offs, v |-> vals, fault |-> "overflow"]
        ELSE IF word >= Len(offs[k + 1])
        THEN [offsets |-> offs, v |-> vals, fault |-> "oob"]
        ELSE IF (j % SNAP_LEN) \in offs[k + 1][word + 1]
        THEN IF id_offset > Len(offs[k + 1])
             THEN [offsets |-> offs, v |-> vals, fault |-> "overflow"]
             ELSE IF x.fault # "none"
             THEN [offsets |-> offs, v |-> vals, fault |-> x.fault]
             ELSE eliminate_unshifted(k + 1, row, j, st,
                            [offs EXCEPT ![k + 1] = x.x],
                            [vals EXCEPT ![k + 1] = XorVal(@, vals[row + 1])])
        ELSE eliminate_unshifted(k + 1, row, j, st, offs, vals)

\* for k in (i + 1)..n of the triangularization, from row k on (i, k from 0)
RECURSIVE eliminate(_, _, _, _, _, _)
eliminate(k, row, j, st, offs, vals) ==
    LET i_id == st[row + 1] \div SNAP_LEN
        k_id == st[k + 1] \div SNAP_LEN
        id_offset == k_id - i_id
        word == (j \div SNAP_LEN) - id_offset
        x == xor_u64s_inplace(offs[k + 1],
                              SubSeq(offs[row + 1], id_offset + 1, Len(offs[row + 1])),
                              Len(offs[k + 1]) - id_offset)
    IN  IF k >= Len(st) THEN [offsets |-> offs, v |-> vals, fault |-> "none"]
        ELSE IF st[k + 1] > (i_id * SNAP_LEN) + j
        THEN [offsets |-> offs, v |-> vals, fault |-> "none"]
        ELSE IF k_id < i_id \/ (j \div SNAP_LEN) < id_offset
        THEN [offsets |-> offs, v |-> vals, fault |-> "overflow"]
        ELSE IF word >= Len(offs[k + 1])
        THEN [offsets |-> offs, v |-> vals, fault |-> "oob"]
        ELSE IF (j % SNAP_LEN) \in offs[k + 1][word + 1]
        THEN IF id_offset > Len(offs[k + 1])
             THEN [offsets |-> offs, v |-> vals, fault |-> "overflow"]
             ELSE IF x.fault # "none"
             THEN [offsets |-> offs, v |-> vals, fault |-> x.fault]
             ELSE eliminate(k + 1, row, j, st,
                            [offs EXCEPT ![k + 1] = x.x],
                            [vals EXCEPT ![k + 1] = XorVal(@, vals[row + 1])])
        ELSE eliminate(k + 1, row, j, st, offs, vals)

\* mutant: the elimination loop begins at row i itself
triangularize_row_from_self(row, st, offs, vals) ==
    LET p == pivot_search(offs[row + 1])
    IN  IF ~p.found
        THEN [offsets |-> offs, v |-> vals, fault |-> "singular"]
        ELSE eliminate(row, row, p.j, st, offs, vals)

\* One iteration of for i in 0..n: pivot search, then elimination.
triangularize_row(row, st, offs, vals) ==
    LET p == pivot_search(offs[row + 1])
    IN  IF ~p.found
        THEN [offsets |-> offs, v |-> vals, fault |-> "singular"]
        ELSE eliminate(row + 1, row, p.j, st, offs, vals)

\* mutant: the window loop never skips a word
window_skipped_never(i_id, k, len) == FALSE

\* One pass of the window loop shared by lines 179-185 and 200-206:
\*     if (i_id + k) * SNAP_LEN >= s.len() { continue; }
\* whether the k-th word of a row is skipped
window_skipped(i_id, k, len) == (i_id + k) * SNAP_LEN >= len

\* &s[from..]: the slice, or the fault "oob" when from > s.len()
slice_from(store, from) ==
    IF from > Len(store)
    THEN [slice |-> << >>, fault |-> "oob"]
    ELSE [slice |-> SubSeq(store, from + 1, Len(store)), fault |-> "none"]

\* sum ^= dot_u64_generic(offsets[k], &s[(i_id + k) * SNAP_LEN..]) for k = from ..
RECURSIVE window_sum(_, _, _, _)
window_sum(offs, i_id, store, from) ==
    IF from >= Len(offs) THEN [value |-> ValueDefault, fault |-> "none"]
    ELSE IF window_skipped(i_id, from, Len(store))
    THEN window_sum(offs, i_id, store, from + 1)
    ELSE LET range == slice_from(store, (i_id + from) * SNAP_LEN)
             rest == window_sum(offs, i_id, store, from + 1)
         IN  IF range.fault # "none"
             THEN [value |-> ValueDefault, fault |-> range.fault]
             ELSE [value |-> XorVal(dot_u64_generic(offs[from + 1], range.slice),
                                    rest.value),
                   fault |-> rest.fault]

\* mutant: the sum is written at the start_index of the row
back_substitute_row_at_start(row, st, offs, vals, store) ==
    LET i_id == st[row + 1] \div SNAP_LEN
        w == window_sum(offs[row + 1], i_id, store, 0)
        sum == XorVal(vals[row + 1], w.value)
        p == st[row + 1]
    IN  IF w.fault # "none" THEN [s |-> store, fault |-> w.fault]
        ELSE IF p >= Len(store) THEN [s |-> store, fault |-> "oob"]
        ELSE [s |-> [store EXCEPT ![p + 1] = sum], fault |-> "none"]

\* One iteration of for i in (0..n).rev(): s[i_id * SNAP_LEN + j] = sum
back_substitute_row(row, st, offs, vals, store) ==
    LET j == pivot_search(offs[row + 1]).j
        i_id == st[row + 1] \div SNAP_LEN
        w == window_sum(offs[row + 1], i_id, store, 0)
        sum == XorVal(vals[row + 1], w.value)
        p == (i_id * SNAP_LEN) + j
    IN  IF w.fault # "none" THEN [s |-> store, fault |-> w.fault]
        ELSE IF p >= Len(store) THEN [s |-> store, fault |-> "oob"]
        ELSE [s |-> [store EXCEPT ![p + 1] = sum], fault |-> "none"]

\* ------------------------------------------------------------------ decoder
\* OKVS::decode(okvs, key), with the key's raw hash output
decode(okvs, raw, isBlock, w) ==
    LET r == row_k(raw, isBlock, Len(okvs), w)
    IN  IF r.fault # "none"
        THEN [value |-> ValueDefault, fault |-> r.fault]
        ELSE window_sum(r.offsets, r.start_index \div SNAP_LEN, okvs, 0)

\* the fault of the first record that has one
RECURSIVE first_fault(_)
first_fault(rows) ==
    IF rows = << >> THEN "none"
    ELSE IF rows[1].fault # "none" THEN rows[1].fault
    ELSE first_fault(Tail(rows))

\* the field f of every record, in order
RECURSIVE column(_, _)
column(rows, f) ==
    IF rows = << >> THEN << >>
    ELSE <<rows[1][f]>> \o column(Tail(rows), f)

\* keys.iter().map(|key| self.decode(okvs, key)): the results in key order
RECURSIVE map_decode(_, _, _, _, _)
map_decode(okvs, ks, orc, isBlock, w) ==
    IF ks = << >> THEN << >>
    ELSE Append(map_decode(okvs, SubSeq(ks, 1, Len(ks) - 1), orc, isBlock, w),
                decode(okvs, orc[ks[Len(ks)]], isBlock, w))

\* .collect() of the values; a decode that panics ends the call
collect(results) ==
    IF first_fault(results) # "none"
    THEN [values |-> << >>, fault |-> first_fault(results)]
    ELSE [values |-> column(results, "value"), fault |-> "none"]

\* mutant: the keys are visited from the last to the first
RECURSIVE decode_many_reversed(_, _, _, _, _)
decode_many_reversed(okvs, ks, orc, isBlock, w) ==
    IF ks = << >> THEN [values |-> << >>, fault |-> "none"]
    ELSE collect(<<decode(okvs, orc[ks[Len(ks)]], isBlock, w)>>
                     \o map_decode(okvs, SubSeq(ks, 1, Len(ks) - 1), orc, isBlock, w))

\* OkvsDecoder::decode_many(okvs, keys)
decode_many(okvs, ks, orc, isBlock, w) == collect(map_decode(okvs, ks, orc, isBlock, w))

\* ------------------------------------------------- BufferedRandomGenerator
BUFFER_LENGTH_U64 == BUFFER_LENGTH_U128 * 2

\* A Block here is the pair of its two u64 halves, lo first (the order
\* `buffer.as_ptr() as *const u64` reads them in on a little-endian target).
\* The AES-128 encryption of Block::from(c) under the key made of the seed is
\* a fixed function of (key, c), injective in both, for key < 8.
Aes128(key, c) ==
    [lo |-> (64 * c) + (8 * key) + (c % 3),
     hi |-> (64 * c) + (8 * key) + 4 + ((c + key) % 3)]

\* mutant: the generator starts with pointer 0, on the zeroed buffer
BufferedRandomGenerator_new_unfilled(seed) ==
    [key |-> seed, counter |-> 0, pointer |-> 0,
     buffer |-> [t \in 1 .. BUFFER_LENGTH_U128 |-> [lo |-> 0, hi |-> 0]]]

\* BufferedRandomGenerator::new(seed)
BufferedRandomGenerator_new(seed) ==
    [key |-> seed, counter |-> 0, pointer |-> BUFFER_LENGTH_U64,
     buffer |-> [t \in 1 .. BUFFER_LENGTH_U128 |-> [lo |-> 0, hi |-> 0]]]

\* mutant: the counter is not advanced by the refill
refill_same_counter(g) ==
    [g EXCEPT !.buffer = [t \in 1 .. BUFFER_LENGTH_U128 |->
                             Aes128(g.key, g.counter + (t - 1))],
              !.pointer = 0]

\* mutant: the last block of the buffer is not refilled
refill_short(g) ==
    [g EXCEPT !.buffer = [t \in 1 .. BUFFER_LENGTH_U128 |->
                             IF t = BUFFER_LENGTH_U128 THEN g.buffer[t]
                             ELSE Aes128(g.key, g.counter + (t - 1))],
              !.counter = g.counter + BUFFER_LENGTH_U128,
              !.pointer = 0]

\* refill: the buffer becomes AES(counter), AES(counter + 1), ..., the
\* counter advances by the buffer length, the pointer is reset
refill(g) ==
    [g EXCEPT !.buffer = [t \in 1 .. BUFFER_LENGTH_U128 |->
                             Aes128(g.key, g.counter + (t - 1))],
              !.counter = g.counter + BUFFER_LENGTH_U128,
              !.pointer = 0]

\* gen_u64: [g |-> the generator after the call, ret |-> the u64]
gen_u64(g) ==
    LET h == IF g.pointer = BUFFER_LENGTH_U64 THEN refill(g) ELSE g
        block == h.buffer[(h.pointer \div 2) + 1]
    IN  [g |-> [h EXCEPT !.pointer = @ + 1],
         ret |-> IF h.pointer % 2 = 0 THEN block.lo ELSE block.hi]

\* gen_usize: self.gen_u64() as usize
gen_usize(g) == gen_u64(g)

\* gen_bool: self.gen_u64() % 2 == 1
gen_bool(g) == [g |-> gen_u64(g).g, ret |-> gen_u64(g).ret % 2 = 1]

\* mutant: the pointer is not rounded up to a block boundary
gen_block_unaligned(g) ==
    LET h == IF g.pointer >= BUFFER_LENGTH_U64 THEN refill(g) ELSE g
    IN  [g |-> [h EXCEPT !.pointer = @ + 2],
         ret |-> h.buffer[(h.pointer \div 2) + 1]]

\* gen_block
gen_block(g) ==
    LET a == IF g.pointer % 2 = 1 THEN [g EXCEPT !.pointer = @ + 1] ELSE g
        h == IF a.pointer = BUFFER_LENGTH_U64 THEN refill(a) ELSE a
    IN  [g |-> [h EXCEPT !.pointer = @ + 2],
         ret |-> h.buffer[(h.pointer \div 2) + 1]]

\* -------------------------------------------------------------------- state
VARIABLES
    epsilon,        \* OKVS.epsilon, as the numerator over EpsDen
    width,          \* OKVS.width
    key_is_block,   \* TypeId::of::<Key>() == TypeId::of::<Block>()
    oracle,         \* the raw hash output of every key hashed so far
    pc,             \* "new", "triangularize", "allocate", "back_substitute",
                    \* "done" (encode returned s) or "panic"
    fault,          \* "none", or the panic: "assert", "singular", "overflow", "oob"
    map,            \* the argument of encode: a sequence of [key, value]
    m,              \* encode's m
    start_indices,  \* encode's start_indices
    offsets,        \* encode's offsets
    v,              \* encode's v
    src,            \* for every sorted row, its position in map (from 0)
    i,              \* the loop variable of the running loop
    s,              \* encode's s, the returned store when pc = "done"
    got,            \* the decode calls answered so far: [key, value, fault]
    keys,           \* the keys argument of decode_many
    out,            \* per key, the result slot the decoding threads fill
    task,           \* per thread, the decode call it is running
    rng,            \* two BufferedRandomGenerators driven by the same calls
    blk             \* a call of hash_row_k with a Block key

vars == <<epsilon, width, key_is_block, oracle, pc, fault, map, m,
          start_indices, offsets, v, src, i, s, got, keys, out, task, rng, blk>>

encVars == <<epsilon, map, m, start_indices, offsets, v, src, i>>
poolVars == <<keys, out, task>>
unitVars == <<rng, blk>>

\* no generator is constructed, no Block key is hashed
NoRng == << >>
NoBlk == << >>

\* a thread that runs no decode call
NoTask == [idx |-> 0, k |-> 0, sum |-> ValueDefault, start_index |-> 0, offsets |-> << >>]

\* keys are named in the order of their first occurrence in the input
FirstOccurrenceOrder(pairs) ==
    \A p \in 1 .. Len(pairs) :
        pairs[p].key <= Cardinality({pairs[q].key : q \in 1 .. (p - 1)})

\* the value of the pair at position p (from 0) is Block(1) or Block(2^p)
ValuesAt(p) == {1, 2 ^ p}

Inputs ==
    UNION {{pairs \in [1 .. len -> [key : Keys, value : 1 .. (2 ^ MaxN)]] :
                /\ FirstOccurrenceOrder(pairs)
                /\ \A p \in 1 .. len : pairs[p].value \in ValuesAt(p - 1)} :
           len \in 0 .. MaxN}

KeysOf(pairs) == {pairs[p].key : p \in 1 .. Len(pairs)}

Init ==
    /\ epsilon \in EpsNums
    /\ width \in Widths
    /\ key_is_block \in BOOLEAN
    /\ oracle = [k \in Keys |-> NoHash]
    /\ pc = "new"
    /\ fault = "none"
    /\ map = << >>
    /\ m = 0
    /\ start_indices = << >>
    /\ offsets = << >>
    /\ v = << >>
    /\ src = << >>
    /\ i = 0
    /\ s = << >>
    /\ got = << >>
    /\ keys = << >>
    /\ out = << >>
    /\ task = [w \in Workers |-> NoTask]
    /\ rng = NoRng
    /\ blk = NoBlk

\* What hashing the keys ks may return: a key hashed before hashes the same.
HashChoices(ks) ==
    {h \in [ks -> RawOutputs] : \A k \in ks : oracle[k] # NoHash => h[k] = oracle[k]}

\* The oracle after the keys ks were hashed to h.
Hashed(ks, h) == [k \in Keys |-> IF k \in ks THEN h[k] ELSE oracle[k]]

\* encode, lines 117-121: for (key, value) in map { rows.push(row_k(..)) };
\* the row remembers its position in map and the fault of its derivation
RECURSIVE derive_rows(_, _, _, _, _)
derive_rows(pairs, orc, isBlock, mm, w) ==
    IF pairs = << >> THEN << >>
    ELSE LET last == pairs[Len(pairs)]
             r == row_k(orc[last.key], isBlock, mm, w)
         IN  Append(derive_rows(SubSeq(pairs, 1, Len(pairs) - 1), orc, isBlock, mm, w),
                    [start_index |-> r.start_index, offsets |-> r.offsets,
                     value |-> last.value, src |-> Len(pairs) - 1, fault |-> r.fault])

\* encode, lines 113-131: sanity, row generation, sort
EncodeStart(pairs, h) ==
    /\ pc = "new"
    /\ map' = pairs
    /\ UNCHANGED <<epsilon, width, key_is_block, s, got>>
    /\ UNCHANGED poolVars
    /\ UNCHANGED unitVars
    /\ \E mm \in {encode_length(Len(pairs), epsilon)} :
        /\ m' = mm
        /\ IF ~sanity(mm, width)
           THEN /\ pc' = "panic"
                /\ fault' = "assert"
                /\ UNCHANGED <<oracle, start_indices, offsets, v, src, i>>
           ELSE \E orc \in {Hashed(KeysOf(pairs), h)} :
                \E gen \in {derive_rows(pairs, orc, key_is_block, mm, width)} :
                /\ oracle' = orc
                /\ i' = 0
                /\ IF first_fault(gen) # "none"
                   THEN /\ pc' = "panic"
                        /\ fault' = first_fault(gen)
                        /\ UNCHANGED <<start_indices, offsets, v, src>>
                   ELSE \E rows \in {sort_by(gen)} :
                        /\ pc' = "triangularize"
                        /\ fault' = "none"
                        /\ start_indices' = column(rows, "start_index")
                        /\ offsets' = column(rows, "offsets")
                        /\ v' = column(rows, "value")
                        /\ src' = column(rows, "src")

\* encode, lines 133-165: one iteration of the triangularization
TriangularizeStep ==
    /\ pc = "triangularize"
    /\ i < Len(map)
    /\ \E r \in {triangularize_row(i, start_indices, offsets, v)} :
           IF r.fault # "none"
           THEN /\ pc' = "panic"
                /\ fault' = r.fault
                /\ UNCHANGED <<offsets, v, i>>
           ELSE /\ offsets' = r.offsets
                /\ v' = r.v
                /\ i' = i + 1
                /\ pc' = IF i + 1 = Len(map) THEN "allocate" ELSE "triangularize"
                /\ UNCHANGED fault
    /\ UNCHANGED <<epsilon, width, key_is_block, oracle, map, m, start_indices, src, s, got>>
    /\ UNCHANGED poolVars
    /\ UNCHANGED unitVars

\* encode, line 167: let mut s = vec![Value::default(); m]
Allocate ==
    /\ pc = "allocate"
    /\ s' = [t \in 1 .. m |-> ValueDefault]
    /\ i' = Len(map) - 1
    /\ pc' = "back_substitute"
    /\ UNCHANGED <<epsilon, width, key_is_block, oracle, fault, map, m,
                   start_indices, offsets, v, src, got>>
    /\ UNCHANGED poolVars
    /\ UNCHANGED unitVars

\* encode, lines 168-188: one iteration of the back-substitution; after the
\* last one encode returns s
BackSubstituteStep ==
    /\ pc = "back_substitute"
    /\ \E r \in {back_substitute_row(i, start_indices, offsets, v, s)} :
           IF r.fault # "none"
           THEN /\ pc' = "panic"
                /\ fault' = r.fault
                /\ UNCHANGED <<s, i>>
           ELSE /\ s' = r.s
                /\ i' = IF i = 0 THEN 0 ELSE i - 1
                /\ pc' = IF i = 0 THEN "done" ELSE "back_substitute"
                /\ UNCHANGED fault
    /\ UNCHANGED <<epsilon, width, key_is_block, oracle, map, m,
                   start_indices, offsets, v, src, got>>
    /\ UNCHANGED poolVars
    /\ UNCHANGED unitVars

\* decode(&s, key) on the returned store
Decode(key, h) ==
    /\ pc = "done"
    /\ Len(got) < MaxDecodes
    /\ \E orc \in {Hashed({key}, h)} :
       \E d \in {decode(s, orc[key], key_is_block, width)} :
           /\ oracle' = orc
           /\ got' = Append(got, [key |-> key, value |-> d.value, fault |-> d.fault])
    /\ UNCHANGED <<epsilon, width, key_is_block, pc, fault, map, m,
                   start_indices, offsets, v, src, i, s>>
    /\ UNCHANGED poolVars
    /\ UNCHANGED unitVars

\* a call of encode with some input
Encode ==
    /\ pc = "new"
    /\ \E pairs \in Inputs : \E h \in HashChoices(KeysOf(pairs)) : EncodeStart(pairs, h)

\* a call of decode with some key
DecodeKey ==
    /\ pc = "done"
    /\ Len(got) < MaxDecodes
    /\ \E key \in Keys : \E h \in HashChoices({key}) : Decode(key, h)

Next ==
    \/ Encode
    \/ TriangularizeStep
    \/ Allocate
    \/ BackSubstituteStep
    \/ DecodeKey

Spec == Init /\ [][Next]_vars

\* ---------------------------------------------------------- row_k on its own
\* the raw hash outputs a key may have when a row of width w is derived:
\* every bit set, or every PatBits-th bit set
RowRawOutputs(w) ==
    {[start |-> st, offs |-> PatWords(pat, IF w < 2 THEN 1 ELSE count_of(w))] :
        st \in RowStarts, pat \in {0 .. (PatBits - 1), {0}}}

InitRow ==
    /\ width \in 0 .. MaxRowWidth
    /\ \E span \in RowSpans : m = width + span
    /\ key_is_block \in BOOLEAN
    /\ \E raw \in RowRawOutputs(width) :
           oracle = [k \in Keys |-> IF k = 0 THEN raw ELSE NoHash]
    /\ pc = "row"
    /\ fault = "none"
    /\ epsilon = 0
    /\ map = << >>
    /\ start_indices = << >>
    /\ offsets = << >>
    /\ v = << >>
    /\ src = << >>
    /\ i = 0
    /\ s = << >>
    /\ got = << >>
    /\ keys = << >>
    /\ out = << >>
    /\ task = [w \in Workers |-> NoTask]
    /\ rng = NoRng
    /\ blk = NoBlk

\* row_k(&key, m, width) for the key 0
RowK ==
    /\ pc = "row"
    /\ \E r \in {row_k(oracle[0], key_is_block, m, width)} :
           /\ start_indices' = <<r.start_index>>
           /\ offsets' = <<r.offsets>>
           /\ fault' = r.fault
    /\ pc' = "row_done"
    /\ UNCHANGED <<epsilon, width, key_is_block, oracle, map, m, v, src, i, s, got>>
    /\ UNCHANGED poolVars
    /\ UNCHANGED unitVars

\* the same call in a build without overflow checks
RowKWrapping ==
    /\ pc = "row"
    /\ \E r \in {row_k_wrapping(oracle[0], key_is_block, m, width)} :
           /\ start_indices' = <<r.start_index>>
           /\ offsets' = <<r.offsets>>
           /\ fault' = r.fault
    /\ pc' = "row_done"
    /\ UNCHANGED <<epsilon, width, key_is_block, oracle, map, m, v, src, i, s, got>>
    /\ UNCHANGED poolVars
    /\ UNCHANGED unitVars

NextRow ==
    \/ RowK
    \/ RowKWrapping

SpecRow == InitRow /\ [][NextRow]_vars

\* ------------------------------------------------- decode_many, one and many threads
\* the store of length len with seed a
StoreOf(len, a) == [t \in 1 .. len |-> 2 ^ ((a * t) % StoreBits)]

Stores == {StoreOf(len, a) : len \in StoreLens, a \in 0 .. MaxStoreSeed}

DecodeRawOutputs ==
    {[start |-> st, offs |-> PatWords(pat, MaxCount)] :
        st \in DecodeStarts, pat \in {0 .. (PatBits - 1), {0}}}

\* key lists, the keys named in the order of their first occurrence
KeyLists ==
    UNION {{ks \in [1 .. len -> Keys] :
                \A p \in 1 .. len : ks[p] <= Cardinality({ks[q] : q \in 1 .. (p - 1)})} :
           len \in 0 .. MaxDecodeKeys}

\* a result slot: not taken yet, being decoded, or filled
Pending == [state |-> "pending", value |-> ValueDefault, fault |-> "none"]
Taken == [state |-> "taken", value |-> ValueDefault, fault |-> "none"]
Filled(val, f) == [state |-> "filled", value |-> val, fault |-> f]

InitDecode ==
    /\ width \in Widths
    /\ key_is_block \in BOOLEAN
    /\ s \in Stores
    /\ keys \in KeyLists
    /\ oracle \in [Keys -> DecodeRawOutputs \cup {NoHash}]
    /\ \A k \in Keys : oracle[k] # NoHash <=> \E p \in 1 .. Len(keys) : keys[p] = k
    /\ out = [p \in 1 .. Len(keys) |-> Pending]
    /\ task = [w \in Workers |-> NoTask]
    /\ rng = NoRng
    /\ blk = NoBlk
    /\ pc = "decode"
    /\ fault = "none"
    /\ got = << >>
    /\ epsilon = 0
    /\ map = << >>
    /\ m = 0
    /\ start_indices = << >>
    /\ offsets = << >>
    /\ v = << >>
    /\ src = << >>
    /\ i = 0

\* the single-threaded decode_many(&s, &keys)
DecodeMany ==
    /\ pc = "decode"
    /\ \E r \in {decode_many(s, keys, oracle, key_is_block, width)} :
           /\ got' = r.values
           /\ fault' = r.fault
           /\ pc' = IF r.fault = "none" THEN "decoded" ELSE "panic"
    /\ UNCHANGED <<width, key_is_block, oracle, s>>
    /\ UNCHANGED encVars
    /\ UNCHANGED poolVars
    /\ UNCHANGED unitVars

\* a thread takes the key at position p and enters decode: line 197-199
Take(w, p) ==
    /\ task[w] = NoTask
    /\ out[p] = Pending
    /\ \E r \in {row_k(oracle[keys[p]], key_is_block, Len(s), width)} :
           IF r.fault # "none"
           THEN /\ out' = [out EXCEPT ![p] = Filled(ValueDefault, r.fault)]
                /\ UNCHANGED task
           ELSE /\ out' = [out EXCEPT ![p] = Taken]
                /\ task' = [task EXCEPT ![w] =
                               [idx |-> p, k |-> 0, sum |-> ValueDefault,
                                start_index |-> r.start_index, offsets |-> r.offsets]]
    /\ UNCHANGED <<width, key_is_block, oracle, pc, fault, s, got, keys>>
    /\ UNCHANGED encVars
    /\ UNCHANGED unitVars

\* one iteration of for k in 0..offsets.len(), lines 200-206
Window(w) ==
    /\ task[w] # NoTask
    /\ task[w].k < Len(task[w].offsets)
    /\ LET t == task[w]
           i_id == t.start_index \div SNAP_LEN
           range == slice_from(s, (i_id + t.k) * SNAP_LEN)
       IN  IF window_skipped(i_id, t.k, Len(s))
           THEN /\ task' = [task EXCEPT ![w].k = @ + 1]
                /\ UNCHANGED out
           ELSE IF range.fault # "none"
           THEN /\ out' = [out EXCEPT ![t.idx] = Filled(ValueDefault, range.fault)]
                /\ task' = [task EXCEPT ![w] = NoTask]
           ELSE /\ task' = [task EXCEPT
                               ![w].k = @ + 1,
                               ![w].sum = XorVal(@, dot_u64_generic(t.offsets[t.k + 1],
                                                                    range.slice))]
                /\ UNCHANGED out
    /\ UNCHANGED <<width, key_is_block, oracle, pc, fault, s, got, keys>>
    /\ UNCHANGED encVars
    /\ UNCHANGED unitVars

\* decode returns sum (line 207) and the thread stores it in the key's slot
Return(w) ==
    /\ task[w] # NoTask
    /\ task[w].k = Len(task[w].offsets)
    /\ out' = [out EXCEPT ![task[w].idx] = Filled(task[w].sum, "none")]
    /\ task' = [task EXCEPT ![w] = NoTask]
    /\ UNCHANGED <<width, key_is_block, oracle, pc, fault, s, got, keys>>
    /\ UNCHANGED encVars
    /\ UNCHANGED unitVars

TakeKey == \E w \in Workers : \E p \in 1 .. Len(keys) : Take(w, p)
WindowStep == \E w \in Workers : Window(w)
ReturnValue == \E w \in Workers : Return(w)

NextDecode ==
    \/ DecodeMany
    \/ TakeKey
    \/ WindowStep
    \/ ReturnValue

SpecDecode == InitDecode /\ [][NextDecode]_vars


\* ------------------------------------------------ dot_u64_generic on its own
InitDot ==
    /\ \E a \in (SUBSET DotBits) \cup {Word} : offsets = <<<<a>>>>
    /\ \E len \in DotLens : \E seed \in 0 .. MaxStoreSeed : s = StoreOf(len, seed)
    /\ pc = "dot"
    /\ fault = "none"
    /\ got = << >>
    /\ width = 0
    /\ key_is_block = FALSE
    /\ oracle = [k \in Keys |-> NoHash]
    /\ keys = << >>
    /\ out = << >>
    /\ task = [w \in Workers |-> NoTask]
    /\ rng = NoRng
    /\ blk = NoBlk
    /\ epsilon = 0
    /\ map = << >>
    /\ m = 0
    /\ start_indices = << >>
    /\ v = << >>
    /\ src = << >>
    /\ i = 0

\* dot_u64_generic(a, b) with a = offsets[0][0] and b = s
Dot ==
    /\ pc = "dot"
    /\ got' = <<dot_u64_generic(offsets[1][1], s)>>
    /\ pc' = "dot_done"
    /\ UNCHANGED <<width, key_is_block, oracle, fault, s>>
    /\ UNCHANGED encVars
    /\ UNCHANGED poolVars
    /\ UNCHANGED unitVars

NextDot == Dot

SpecDot == InitDot /\ [][NextDot]_vars

\* ------------------------------------------- xor_u64s_inplace, three kernels
Kernels == {"native", "avx2", "sse2"}

\* word t of the sequence with the given seed
XorWordOf(t, seed) == {(t * (seed + 1)) % SNAP_LEN, (t + seed) % 5}

NoResult == [x |-> << >>, fault |-> "pending"]

\* x = offsets[0] and y = offsets[1] are two allocations of at least len = i
\* words; every kernel is run on a copy of them
InitXor ==
    /\ i \in 0 .. MaxXorLen
    /\ \E slack \in 0 .. 1 : \E sx, sy \in 0 .. 1 :
           offsets = <<[t \in 1 .. (i + slack) |-> XorWordOf(t, sx)],
                       [t \in 1 .. (i + slack) |-> XorWordOf(t + 2, sy)]>>
    /\ got = [k \in Kernels |-> NoResult]
    /\ pc = "xor"
    /\ fault = "none"
    /\ width = 0
    /\ key_is_block = FALSE
    /\ oracle = [k \in Keys |-> NoHash]
    /\ keys = << >>
    /\ out = << >>
    /\ task = [w \in Workers |-> NoTask]
    /\ rng = NoRng
    /\ blk = NoBlk
    /\ epsilon = 0
    /\ map = << >>
    /\ m = 0
    /\ start_indices = << >>
    /\ v = << >>
    /\ src = << >>
    /\ s = << >>

\* the frame of the three kernel runs
XorFrame ==
    /\ UNCHANGED <<width, key_is_block, oracle, pc, fault, s>>
    /\ UNCHANGED encVars
    /\ UNCHANGED poolVars
    /\ UNCHANGED unitVars

XorNative ==
    /\ pc = "xor" /\ got["native"] = NoResult
    /\ got' = [got EXCEPT !["native"] = xor_u64s_inplace(offsets[1], offsets[2], i)]
    /\ XorFrame

XorAvx2 ==
    /\ pc = "xor" /\ got["avx2"] = NoResult
    /\ got' = [got EXCEPT !["avx2"] = avx2_xor_u64s_inplace(offsets[1], offsets[2], i)]
    /\ XorFrame

XorSse2 ==
    /\ pc = "xor" /\ got["sse2"] = NoResult
    /\ got' = [got EXCEPT !["sse2"] = sse2_xor_u64s_inplace(offsets[1], offsets[2], i)]
    /\ XorFrame

NextXor ==
    \/ XorNative
    \/ XorAvx2
    \/ XorSse2

SpecXor == InitXor /\ [][NextXor]_vars

\* --------------------------------------- two generators, the same calls
Seeds == 0 .. (NumSeeds - 1)
Ops == {"gen_u64", "gen_usize", "gen_block", "gen_bool"}

\* the number of u64 places of the stream a call uses up, counted from the
\* place `before`: a block begins at an even place
PlacesAfter(op, before) ==
    IF op = "gen_block" THEN before + (before % 2) + 2 ELSE before + 1

InitRng ==
    /\ \E ka, kb \in Seeds :
           rng = [gen |-> <<BufferedRandomGenerator_new(ka), BufferedRandomGenerator_new(kb)>>,
                  ret |-> <<0, 0>>, op |-> "none", before |-> 0, places |-> 0,
                  blocks |-> 0]
    /\ blk = NoBlk
    /\ pc = "rng"
    /\ fault = "none"
    /\ got = << >>
    /\ width = 0
    /\ key_is_block = FALSE
    /\ oracle = [k \in Keys |-> NoHash]
    /\ keys = << >>
    /\ out = << >>
    /\ task = [w \in Workers |-> NoTask]
    /\ epsilon = 0
    /\ map = << >>
    /\ m = 0
    /\ start_indices = << >>
    /\ offsets = << >>
    /\ v = << >>
    /\ src = << >>
    /\ i = 0
    /\ s = << >>

\* both generators answer the call op; a and b are the two answers
Call(op, a, b) ==
    /\ pc = "rng"
    /\ PlacesAfter(op, rng.places) <= MaxRefills * BUFFER_LENGTH_U64
    /\ rng' = [gen |-> <<a.g, b.g>>, ret |-> <<a.ret, b.ret>>, op |-> op,
               before |-> rng.places, places |-> PlacesAfter(op, rng.places),
               blocks |-> IF op = "gen_block" /\ rng.blocks >= 0
                          THEN rng.blocks + 1 ELSE -1]
    /\ UNCHANGED <<width, key_is_block, oracle, pc, fault, s, got, blk>>
    /\ UNCHANGED encVars
    /\ UNCHANGED poolVars

GenU64 == pc = "rng" /\ Call("gen_u64", gen_u64(rng.gen[1]), gen_u64(rng.gen[2]))
GenUsize == pc = "rng" /\ Call("gen_usize", gen_usize(rng.gen[1]), gen_usize(rng.gen[2]))
GenBlock == pc = "rng" /\ Call("gen_block", gen_block(rng.gen[1]), gen_block(rng.gen[2]))
GenBool == pc = "rng" /\ Call("gen_bool", gen_bool(rng.gen[1]), gen_bool(rng.gen[2]))

NextRng ==
    \/ GenU64
    \/ GenUsize
    \/ GenBlock
    \/ GenBool

SpecRng == InitRng /\ [][NextRng]_vars

\* ---------------------------------------- hash_row_k, the path of Block keys
\* Here a Block is the set of the set bits of its u128, a subset of 0 .. 127,
\* and the memory of a Vec<Block> is a sequence of bytes, each a subset of
\* 0 .. 7, laid out as the little-endian host lays out a u128.
BLOCK_BITS == 128

MaxHashCount == 4
MaxKeyOffset == 2

\* the AES permutations drawn for AES_HASHER: a rotation of the 128 bits
\* followed by a mask
AesChoices == [rot : {1, 63, 64}, mask : {{}, {0, 127}}]

\* AES_HASHER.encrypt_block
encrypt_block(b, f) == XorWord({(k + f.rot) % BLOCK_BITS : k \in b}, f.mask)

\* aes::hash_block_to_block: ret = encrypt(block); ret ^= block
hash_block_to_block(b, f) == XorWord(encrypt_block(b, f), b)

\* the u128 value q * 2^64 + d modulo 2^128, for small d of either sign
LowBits(n) == {k \in 0 .. 7 : (n \div (2 ^ k)) % 2 = 1}
ValueBits(q, d) ==
    IF d >= 0 THEN LowBits(d) \cup (IF q % 2 = 1 THEN {SNAP_LEN} ELSE {})
    ELSE IF q % 2 = 1 THEN (0 .. (SNAP_LEN - 1)) \ LowBits((-d) - 1)
    ELSE (0 .. (BLOCK_BITS - 1)) \ LowBits((-d) - 1)

\* u128 + 1, wrapping: the carry runs through the low set bits
wrapping_inc(a) ==
    IF a = 0 .. (BLOCK_BITS - 1) THEN {}
    ELSE LET k == CHOOSE c \in (0 .. (BLOCK_BITS - 1)) \ a :
                      \A j \in 0 .. (c - 1) : j \in a
         IN  (a \ (0 .. k)) \cup {k}

\* mutant: the addition saturates at 2^128 - 1
RECURSIVE wrapping_add_saturating(_, _)
wrapping_add_saturating(a, n) ==
    IF n = 0 \/ a = 0 .. (BLOCK_BITS - 1) THEN a
    ELSE wrapping_add_saturating(wrapping_inc(a), n - 1)

\* key.0.wrapping_add(i as u128), for the small i of hash_row_k
RECURSIVE wrapping_add(_, _)
wrapping_add(a, n) == IF n = 0 THEN a ELSE wrapping_add(wrapping_inc(a), n - 1)

\* the 16 bytes of a Block in memory
block_bytes(b) == [j \in 1 .. 16 |-> {k - (8 * (j - 1)) : k \in b \cap ((8 * (j - 1)) .. ((8 * j) - 1))}]

RECURSIVE buf_bytes(_)
buf_bytes(buf) ==
    IF buf = << >> THEN << >> ELSE block_bytes(Head(buf)) \o buf_bytes(Tail(buf))

\* the u64 the host reads from the 8 bytes at byte offset off
read_u64(mem, off) == UNION {{(8 * j) + k : k \in mem[off + j + 1]} : j \in 0 .. 7}

required_bytes(count) == 8 + (count * 8)
required_blocks(count) == (required_bytes(count) + 15) \div 16

\* hash_row_k for T = Block, lines 23-53. buf0 is the 8 bytes at offset 0,
\* buf1 the count * 8 bytes at offset 8; a slice that leaves the buffer is
\* the fault "oob".
hash_row_k_block(key, count, f) ==
    LET buf == [n \in 1 .. required_blocks(count) |->
                    hash_block_to_block(wrapping_add(key, n - 1), f)]
        mem == buf_bytes(buf)
    IN  IF 8 + (count * 8) > Len(mem)
        THEN [start_index |-> {}, offsets |-> << >>, blocks |-> Len(buf),
              fault |-> "oob"]
        ELSE [start_index |-> read_u64(mem, 0),
              offsets     |-> [t \in 1 .. count |-> read_u64(mem, 8 + (8 * (t - 1)))],
              blocks      |-> Len(buf),
              fault       |-> "none"]

HashKeys == {[q |-> q, d |-> d] : q \in 0 .. 1, d \in (-(MaxKeyOffset + 1)) .. MaxKeyOffset}

InitHash ==
    /\ \E key \in HashKeys, count \in 1 .. MaxHashCount, f \in AesChoices :
           blk = [key |-> key, count |-> count, aes |-> f]
    /\ rng = NoRng
    /\ pc = "hash"
    /\ fault = "none"
    /\ got = << >>
    /\ width = 0
    /\ key_is_block = TRUE
    /\ oracle = [k \in Keys |-> NoHash]
    /\ keys = << >>
    /\ out = << >>
    /\ task = [w \in Workers |-> NoTask]
    /\ epsilon = 0
    /\ map = << >>
    /\ m = 0
    /\ start_indices = << >>
    /\ offsets = << >>
    /\ v = << >>
    /\ src = << >>
    /\ i = 0
    /\ s = << >>

\* one call hash_row_k(&key, count) with a Block key
HashRowK ==
    /\ pc = "hash"
    /\ got' = <<hash_row_k_block(ValueBits(blk.key.q, blk.key.d), blk.count, blk.aes)>>
    /\ fault' = got'[1].fault
    /\ pc' = "hash_done"
    /\ UNCHANGED <<width, key_is_block, oracle, s>>
    /\ UNCHANGED encVars
    /\ UNCHANGED poolVars
    /\ UNCHANGED unitVars

NextHash == HashRowK

SpecHash == InitHash /\ [][NextHash]_vars

\* ------------------------------------------- the block hashes of aes.rs
\* Blocks are sets of bit positions as in the section above; a call returns
\* [y |-> what it wrote or returned, fault |-> "none" or its panic].
MaxBatch == 2
MaxVecLen == 2

\* Block::default()
BlockDefault == {}

\* fixed_aes_encrypt_single: AES_HASHER.encrypt_block_b2b(x, y)
fixed_aes_encrypt_single(x, y, f) == encrypt_block(x, f)

\* fixed_aes_hash_single: y = enc(x); *y ^= *x
fixed_aes_hash_single(x, y, f) == XorWord(fixed_aes_encrypt_single(x, y, f), x)

\* fixed_aes_encrypt: AES_HASHER.encrypt_blocks_b2b(x, y).unwrap(), an error
\* when the two slices differ in length
fixed_aes_encrypt(xs, ys, f) ==
    IF Len(xs) # Len(ys)
    THEN [y |-> ys, fault |-> "unwrap"]
    ELSE [y |-> [n \in 1 .. Len(ys) |-> encrypt_block(xs[n], f)], fault |-> "none"]

\* mutant: every output is masked with the first input
fixed_aes_hash_first(xs, ys, f) ==
    LET e == fixed_aes_encrypt(xs, ys, f)
    IN  IF Len(xs) # Len(ys) THEN [y |-> ys, fault |-> "assert"]
        ELSE [y |-> [n \in 1 .. Len(xs) |-> XorWord(e.y[n], xs[1])], fault |-> "none"]

\* fixed_aes_hash: debug_assert_eq!(x.len(), y.len()); y = enc(x);
\* for i in 0..x.len() { y[i] ^= x[i] }
fixed_aes_hash(xs, ys, f) ==
    LET e == fixed_aes_encrypt(xs, ys, f)
    IN  IF Len(xs) # Len(ys) THEN [y |-> ys, fault |-> "assert"]
        ELSE [y |-> [n \in 1 .. Len(xs) |-> XorWord(e.y[n], xs[n])], fault |-> "none"]

\* <Block as HashTo<Block>>::hash_to
hash_to(x, f) == fixed_aes_hash_single(x, BlockDefault, f)

\* <Block as HashTo<Block>>::hash_vec_to: ret = vec![Block::default(); n]
hash_vec_to(xs, f) == fixed_aes_hash(xs, [n \in 1 .. Len(xs) |-> BlockDefault], f)

\* Vec::with_capacity(n): the vector has room for n elements and holds none
with_capacity(n) == << >>

\* the function the claim describes: y is created holding its n elements
\* (vec![Block(0); n]); with it C29_Original holds in SpecAes
fixed_aes_hash_block_to_block_vecs_filled(xs, len, f) ==
    LET y == [p \in 1 .. (Len(xs) * len) |->
                  wrapping_add(xs[((p - 1) \div len) + 1], (p - 1) % len)]
    IN  IF len = 0 THEN [y |-> << >>, fault |-> "assert"]
        ELSE fixed_aes_hash(y, [p \in 1 .. Len(y) |-> BlockDefault], f)

\* fixed_aes_hash_block_to_block_vecs: x.iter().zip(y.chunks_exact_mut(len))
\* visits as many chunks as y holds whole ones (chunks_exact_mut panics on
\* len = 0); chunk c receives x[c], x[c] + 1, ...; out = vec![Block(0); y.len()]
fixed_aes_hash_block_to_block_vecs(xs, len, f) ==
    LET y0 == with_capacity(Len(xs) * len)
        visited == IF len = 0 THEN 0 ELSE Min({Len(xs), Len(y0) \div len})
        y == [p \in 1 .. Len(y0) |->
                  IF (p - 1) \div len < visited
                  THEN wrapping_add(xs[((p - 1) \div len) + 1], (p - 1) % len)
                  ELSE y0[p]]
    IN  IF len = 0 THEN [y |-> << >>, fault |-> "assert"]
        ELSE fixed_aes_hash(y, [p \in 1 .. Len(y) |-> BlockDefault], f)

AesKeys == {[q |-> q, d |-> d] : q \in 0 .. 1, d \in (-1) .. 1}
AesInputs == UNION {[1 .. n -> AesKeys] : n \in 0 .. MaxBatch}
Routes == {"hash_to_block", "hash_to", "fixed_aes_hash_single", "hash_vec_to",
           "fixed_aes_hash", "vecs"}
NoCall == [y |-> << >>, fault |-> "uncalled"]

\* the Blocks of a list of keys
BlocksOf(ks) == [n \in 1 .. Len(ks) |-> ValueBits(ks[n].q, ks[n].d)]

InitAes ==
    /\ \E ks \in AesInputs, f \in AesChoices, len \in 0 .. MaxVecLen :
       \E at \in (IF Len(ks) = 0 THEN {0} ELSE 1 .. Len(ks)) :
           blk = [keys |-> ks, at |-> at, len |-> len, aes |-> f,
                  ret |-> [r \in Routes |-> NoCall]]
    /\ rng = NoRng
    /\ pc = "aes"
    /\ fault = "none"
    /\ got = << >>
    /\ width = 0
    /\ key_is_block = TRUE
    /\ oracle = [k \in Keys |-> NoHash]
    /\ keys = << >>
    /\ out = << >>
    /\ task = [w \in Workers |-> NoTask]
    /\ epsilon = 0
    /\ map = << >>
    /\ m = 0
    /\ start_indices = << >>
    /\ offsets = << >>
    /\ v = << >>
    /\ src = << >>
    /\ i = 0
    /\ s = << >>

\* the call of one route returns r
AesCall(route, r) ==
    /\ pc = "aes"
    /\ blk.ret[route].fault = "uncalled"
    /\ blk' = [blk EXCEPT !.ret[route] = r]
    /\ UNCHANGED <<width, key_is_block, oracle, pc, fault, s, got, rng>>
    /\ UNCHANGED encVars
    /\ UNCHANGED poolVars

HashToBlock ==
    /\ pc = "aes" /\ blk.at >= 1
    /\ AesCall("hash_to_block",
               [y |-> hash_block_to_block(BlocksOf(blk.keys)[blk.at], blk.aes),
                fault |-> "none"])

HashTo ==
    /\ pc = "aes" /\ blk.at >= 1
    /\ AesCall("hash_to",
               [y |-> hash_to(BlocksOf(blk.keys)[blk.at], blk.aes), fault |-> "none"])

FixedAesHashSingle ==
    /\ pc = "aes" /\ blk.at >= 1
    /\ AesCall("fixed_aes_hash_single",
               [y |-> fixed_aes_hash_single(BlocksOf(blk.keys)[blk.at], BlockDefault, blk.aes),
                fault |-> "none"])

HashVecTo == pc = "aes" /\ AesCall("hash_vec_to", hash_vec_to(BlocksOf(blk.keys), blk.aes))

FixedAesHash ==
    /\ pc = "aes"
    /\ AesCall("fixed_aes_hash",
               fixed_aes_hash(BlocksOf(blk.keys),
                              [n \in 1 .. Len(blk.keys) |-> BlockDefault], blk.aes))

FixedAesHashBlockToBlockVecs ==
    /\ pc = "aes"
    /\ AesCall("vecs",
               fixed_aes_hash_block_to_block_vecs(BlocksOf(blk.keys), blk.len, blk.aes))

NextAes ==
    \/ HashToBlock
    \/ HashTo
    \/ FixedAesHashSingle
    \/ HashVecTo
    \/ FixedAesHash
    \/ FixedAesHashBlockToBlockVecs

SpecAes == InitAes /\ [][NextAes]_vars

\* ------------------------------------------------- the test OKVS_encode
\* tests::OKVS_encode at its own size: 1024 pairs (i, Block(i * i)) with usize
\* keys, width 87 and epsilon 0.01. At this size the loops of encode are
\* written pass by pass instead of by recursion: row generation as a map,
\* the stable sort by the rank of every row, the elimination loop by the
\* passes it makes (PassesAgreeWithLoop and RankAgreesWithSort compare the two
\* forms on the small inputs of Spec).
TestN == 1024
TestWidth == 87
TestEpsilonPercent == 1
TestSeeds == 2

\* m = (n as f64 * (1.0 + epsilon)).ceil() as usize, epsilon = pct / 100
encode_length_percent(n, pct) == ((n * (100 + pct)) + 99) \div 100

\* What the hash gives for the key k under the hash function a: bit c of the
\* stream behind the start index is a mixed function of k, c and a.
TestBit(k, c, a) ==
    ((((((k * 131) + (c * 71) + (a * 17)) % 1009) + 3)
        * (((k * 37) + (c * 113) + a) % 1013)) % 1019) % 2 = 1

TestHash(k, a) ==
    [start |-> ((k * 7919) + (a * 104729) + 13) % 100003,
     offs  |-> [t \in 1 .. 3 |-> {b \in Word : TestBit(k, (SNAP_LEN * t) + b, a)}]]

\* map.push((i, Block((i*i) as u128))) for i in 0..n
TestMap == [p \in 1 .. TestN |-> [key |-> p - 1, value |-> (p - 1) * (p - 1)]]

\* encode, lines 117-121, as a map over the pairs
derive_rows_map(pairs, orc, isBlock, mm, w) ==
    [p \in 1 .. Len(pairs) |->
        LET r == row_k(orc[pairs[p].key], isBlock, mm, w)
        IN  [start_index |-> r.start_index, offsets |-> r.offsets,
             value |-> pairs[p].value, src |-> p - 1, fault |-> r.fault]]

\* rows.sort_by(|a, b| a.0.cmp(&b.0)): the place of every row after the
\* stable sort, behind the rows with a smaller start_index and behind the
\* earlier rows with an equal one
stable_rank(rows) ==
    [p \in 1 .. Len(rows) |->
        Cardinality({q \in 1 .. Len(rows) :
            \/ rows[q].start_index < rows[p].start_index
            \/ rows[q].start_index = rows[p].start_index /\ q <= p})]

\* the rows in the order of their ranks
ranked(rows, rank) ==
    [r \in 1 .. Len(rows) |-> rows[CHOOSE p \in 1 .. Len(rows) : rank[p] = r]]

\* the k at which the loop `for k in (i + 1)..n` ends: the first k whose
\* start_index is beyond the pivot column, or n
loop_end(row, col, st) ==
    CHOOSE k \in (row + 1) .. Len(st) :
        /\ k = Len(st) \/ st[k + 1] > col
        /\ \A q \in (row + 1) .. (k - 1) : st[q + 1] <= col

\* the fault of the pass k of the loop, "none" when it completes
pass_fault(k, row, j, st, offs) ==
    LET i_id == st[row + 1] \div SNAP_LEN
        k_id == st[k + 1] \div SNAP_LEN
        id_offset == k_id - i_id
        word == (j \div SNAP_LEN) - id_offset
    IN  IF k_id < i_id \/ (j \div SNAP_LEN) < id_offset THEN "overflow"
        ELSE IF word >= Len(offs[k + 1]) THEN "oob"
        ELSE IF (j % SNAP_LEN) \notin offs[k + 1][word + 1] THEN "none"
        ELSE IF id_offset > Len(offs[k + 1]) THEN "overflow"
        ELSE xor_u64s_inplace(offs[k + 1],
                              SubSeq(offs[row + 1], id_offset + 1, Len(offs[row + 1])),
                              Len(offs[k + 1]) - id_offset).fault

\* whether the pass k of the loop adds row i to row k
pass_adds(k, row, j, st, offs) ==
    LET id_offset == (st[k + 1] \div SNAP_LEN) - (st[row + 1] \div SNAP_LEN)
    IN  (j % SNAP_LEN) \in offs[k + 1][((j \div SNAP_LEN) - id_offset) + 1]

\* the loop `for k in (i + 1)..n` pass by pass: a pass reads row i and
\* changes row k only, so no pass depends on another one
eliminate_passes(row, j, st, offs, vals) ==
    LET i_id == st[row + 1] \div SNAP_LEN
        end == loop_end(row, (i_id * SNAP_LEN) + j, st)
        passes == (row + 1) .. (end - 1)
        failed == {k \in passes : pass_fault(k, row, j, st, offs) # "none"}
    IN  IF failed # {}
        THEN [offsets |-> offs, v |-> vals,
              fault |-> pass_fault(Min(failed), row, j, st, offs)]
        ELSE [offsets |-> [p \in 1 .. Len(offs) |->
                  IF (p - 1) \in passes /\ pass_adds(p - 1, row, j, st, offs)
                  THEN xor_u64s_inplace(offs[p],
                           SubSeq(offs[row + 1],
                                  ((st[p] \div SNAP_LEN) - i_id) + 1, Len(offs[row + 1])),
                           Len(offs[p]) - ((st[p] \div SNAP_LEN) - i_id)).x
                  ELSE offs[p]],
              v |-> [p \in 1 .. Len(vals) |->
                  IF (p - 1) \in passes /\ pass_adds(p - 1, row, j, st, offs)
                  THEN XorVal(vals[p], vals[row + 1])
                  ELSE vals[p]],
              fault |-> "none"]

\* One iteration of for i in 0..n: pivot search, then the passes.
triangularize_row_passes(row, st, offs, vals) ==
    LET p == pivot_search(offs[row + 1])
    IN  IF ~p.found
        THEN [offsets |-> offs, v |-> vals, fault |-> "singular"]
        ELSE eliminate_passes(row, p.j, st, offs, vals)

\* the test before its call of encode; oracle names the hash function
InitTest ==
    /\ \E a \in 1 .. TestSeeds : oracle = [seed |-> a]
    /\ rng = NoRng
    /\ blk = NoBlk
    /\ pc = "test"
    /\ fault = "none"
    /\ got = << >>
    /\ width = TestWidth
    /\ key_is_block = FALSE
    /\ keys = << >>
    /\ out = << >>
    /\ task = [w \in Workers |-> NoTask]
    /\ epsilon = TestEpsilonPercent
    /\ map = << >>
    /\ m = 0
    /\ start_indices = << >>
    /\ offsets = << >>
    /\ v = << >>
    /\ src = << >>
    /\ i = 0
    /\ s = << >>

\* encoder.encode(&map), lines 113-131: sanity, row generation, sort
TestEncode ==
    /\ pc = "test"
    /\ map' = TestMap
    /\ i' = 0
    /\ UNCHANGED <<epsilon, width, key_is_block, oracle, s, got>>
    /\ UNCHANGED poolVars
    /\ UNCHANGED unitVars
    /\ \E mm \in {encode_length_percent(TestN, epsilon)} :
        /\ m' = mm
        /\ IF ~sanity(mm, width)
           THEN /\ pc' = "panic"
                /\ fault' = "assert"
                /\ UNCHANGED <<start_indices, offsets, v, src>>
           ELSE \E gen \in {derive_rows_map(TestMap,
                                [k \in 0 .. (TestN - 1) |-> TestHash(k, oracle.seed)],
                                key_is_block, mm, width)} :
                IF \E p \in 1 .. TestN : gen[p].fault # "none"
                THEN /\ pc' = "panic"
                     /\ fault' = gen[CHOOSE p \in 1 .. TestN :
                                        /\ gen[p].fault # "none"
                                        /\ \A q \in 1 .. (p - 1) : gen[q].fault = "none"].fault
                     /\ UNCHANGED <<start_indices, offsets, v, src>>
                ELSE \E rank \in {stable_rank(gen)} :
                     \E rows \in {ranked(gen, rank)} :
                     /\ pc' = "test_triangularize"
                     /\ fault' = "none"
                     /\ start_indices' = [p \in 1 .. TestN |-> rows[p].start_index]
                     /\ offsets' = [p \in 1 .. TestN |-> rows[p].offsets]
                     /\ v' = [p \in 1 .. TestN |-> rows[p].value]
                     /\ src' = [p \in 1 .. TestN |-> rows[p].src]

\* encode, lines 133-165: one iteration of the triangularization
TestTriangularizeStep ==
    /\ pc = "test_triangularize"
    /\ i < Len(map)
    /\ \E r \in {triangularize_row_passes(i, start_indices, offsets, v)} :
           IF r.fault # "none"
           THEN /\ pc' = "panic"
                /\ fault' = r.fault
                /\ UNCHANGED <<offsets, v, i>>
           ELSE /\ offsets' = r.offsets
                /\ v' = r.v
                /\ i' = i + 1
                /\ pc' = IF i + 1 = Len(map) THEN "test_triangularized"
                         ELSE "test_triangularize"
                /\ UNCHANGED fault
    /\ UNCHANGED <<epsilon, width, key_is_block, oracle, map, m, start_indices, src, s, got>>
    /\ UNCHANGED poolVars
    /\ UNCHANGED unitVars

NextTest ==
    \/ TestEncode
    \/ TestTriangularizeStep

SpecTest == InitTest /\ [][NextTest]_vars

\* ------------------------------------------ decode, one key and four stores
\* the element-wise XOR of two stores of one length
XorStore(a, b) == [t \in 1 .. Len(a) |-> XorVal(a[t], b[t])]

\* vec![Value::default(); len]
ZeroStore(len) == [t \in 1 .. len |-> ValueDefault]

\* the stores decode is called on: S1, S2, S1 ^ S2 and the all-zero store
LinearStores(s1, s2) == <<s1, s2, XorStore(s1, s2), ZeroStore(Len(s1))>>

\* a call of decode that was not made yet
NoDecode == [value |-> ValueDefault, fault |-> "uncalled"]

InitLinear ==
    /\ width \in Widths
    /\ key_is_block \in BOOLEAN
    /\ s \in Stores
    /\ \E s2 \in {t \in Stores : Len(t) = Len(s)} :
           blk = [stores |-> LinearStores(s, s2), ret |-> [p \in 1 .. 4 |-> NoDecode]]
    /\ keys = <<0>>
    /\ oracle \in [{0} -> DecodeRawOutputs]
    /\ out = << >>
    /\ task = [w \in Workers |-> NoTask]
    /\ rng = NoRng
    /\ pc = "decode"
    /\ fault = "none"
    /\ got = << >>
    /\ epsilon = 0
    /\ map = << >>
    /\ m = 0
    /\ start_indices = << >>
    /\ offsets = << >>
    /\ v = << >>
    /\ src = << >>
    /\ i = 0

\* decode(&stores[p], &key): the call takes the store by shared reference
DecodeStore(p) ==
    /\ pc = "decode"
    /\ blk.ret[p].fault = "uncalled"
    /\ \E r \in {decode(blk.stores[p], oracle[keys[1]], key_is_block, width)} :
           blk' = [blk EXCEPT !.ret[p] = r]
    /\ UNCHANGED <<width, key_is_block, oracle, pc, fault, s, got, keys, out, task, rng>>
    /\ UNCHANGED encVars

NextLinear == \E p \in 1 .. 4 : DecodeStore(p)

SpecLinear == InitLinear /\ [][NextLinear]_vars

\* ------------------------------------------------- BitString, push and pop
\* A BitString is [data, len]: data the storage words (a word is the set of
\* the positions of its set bits), len the number of bits.
ITEM_BITS == 64
ITEM_BITS_LOG2 == 6
ITEM_BITS_MASK == ITEM_BITS - 1

\* ceil_div(x, y)
ceil_div(x, y) == IF x % y = 0 THEN x \div y ELSE (x \div y) + 1

\* BitString::new_zeros(bit_length)
new_zeros(bit_length) ==
    [data |-> [t \in 1 .. ceil_div(bit_length, ITEM_BITS) |-> {}], len |-> bit_length]

\* BitString::new()
BitString_new == new_zeros(0)

\* index >> ITEM_BITS_LOG2 and index & ITEM_BITS_MASK
WordOf(index) == index \div (2 ^ ITEM_BITS_LOG2)
BitOf(index) == index % (ITEM_BITS_MASK + 1)

\* set(index, bit): the debug assertion, then the indexing of data
set(bs, index, bit) ==
    IF index >= bs.len THEN [bs |-> bs, fault |-> "assert"]
    ELSE IF WordOf(index) >= Len(bs.data) THEN [bs |-> bs, fault |-> "oob"]
    ELSE [bs |-> [bs EXCEPT !.data[WordOf(index) + 1] =
                     IF bit THEN @ \cup {BitOf(index)} ELSE @ \ {BitOf(index)}],
          fault |-> "none"]

\* get(index)
get(bs, index) ==
    IF index >= bs.len THEN [bit |-> FALSE, fault |-> "assert"]
    ELSE IF WordOf(index) >= Len(bs.data) THEN [bit |-> FALSE, fault |-> "oob"]
    ELSE [bit |-> BitOf(index) \in bs.data[WordOf(index) + 1], fault |-> "none"]

\* push(bit): a new word when len is a multiple of ITEM_BITS, then the bit is
\* or-ed into the last word of data
push(bs, bit) ==
    LET data == IF BitOf(bs.len) = 0 THEN Append(bs.data, {}) ELSE bs.data
    IN  IF data = << >> THEN [bs |-> bs, fault |-> "unwrap"]
        ELSE [bs |-> [data |-> [data EXCEPT ![Len(data)] =
                                   IF bit THEN @ \cup {BitOf(bs.len)} ELSE @],
                      len |-> bs.len + 1],
              fault |-> "none"]

\* pop(): get and clear the last bit, len -= 1; data keeps its words
pop(bs) ==
    IF bs.len = 0 THEN [bs |-> bs, bit |-> FALSE, fault |-> "assert"]
    ELSE LET g == get(bs, bs.len - 1)
             c == set(bs, bs.len - 1, FALSE)
         IN  IF g.fault # "none" THEN [bs |-> bs, bit |-> FALSE, fault |-> g.fault]
             ELSE IF c.fault # "none" THEN [bs |-> bs, bit |-> FALSE, fault |-> c.fault]
             ELSE [bs |-> [c.bs EXCEPT !.len = bs.len - 1], bit |-> g.bit, fault |-> "none"]

\* the lengths the BitString is constructed with
BitLens == {0, 1, ITEM_BITS - 1, ITEM_BITS}

\* blk holds the BitString, the last call on it with the bit it was given or
\* returned, and the number of calls
InitBits ==
    /\ \E n \in BitLens :
           blk = [bs |-> new_zeros(n), op |-> "new", bit |-> FALSE, calls |-> 0]
    /\ rng = NoRng
    /\ pc = "bits"
    /\ fault = "none"
    /\ got = << >>
    /\ width = 0
    /\ key_is_block = FALSE
    /\ oracle = [k \in Keys |-> NoHash]
    /\ keys = << >>
    /\ out = << >>
    /\ task = [w \in Workers |-> NoTask]
    /\ epsilon = 0
    /\ map = << >>
    /\ m = 0
    /\ start_indices = << >>
    /\ offsets = << >>
    /\ v = << >>
    /\ src = << >>
    /\ i = 0
    /\ s = << >>

\* the end of a call on the BitString
BitsCall(op, r, bit) ==
    /\ blk' = [bs |-> r.bs, op |-> op, bit |-> bit, calls |-> blk.calls + 1]
    /\ fault' = r.fault
    /\ pc' = IF r.fault = "none" THEN "bits" ELSE "panic"
    /\ UNCHANGED <<width, key_is_block, oracle, s, got, rng>>
    /\ UNCHANGED encVars
    /\ UNCHANGED poolVars

Push ==
    /\ pc = "bits"
    /\ blk.calls < MaxBitOps
    /\ \E bit \in BOOLEAN : BitsCall("push", push(blk.bs, bit), bit)

Pop ==
    /\ pc = "bits"
    /\ blk.calls < MaxBitOps
    /\ \E r \in {pop(blk.bs)} : BitsCall("pop", r, r.bit)

\* get(len - 1), the read of the last bit
GetLast ==
    /\ pc = "bits"
    /\ blk.calls < MaxBitOps
    /\ blk.bs.len > 0
    /\ \E g \in {get(blk.bs, blk.bs.len - 1)} :
           BitsCall("get", [bs |-> blk.bs, fault |-> g.fault], g.bit)

NextBits ==
    \/ Push
    \/ Pop
    \/ GetLast

SpecBits == InitBits /\ [][NextBits]_vars

\* ---------------------------------------------------------------- properties
DistinctKeys == \A p, q \in 1 .. Len(map) : map[p].key = map[q].key => p = q
HasDuplicateKey == ~DistinctKeys
Called == pc # "new"
Returned == pc = "done"
RowsExist == pc \in {"triangularize", "allocate", "back_substitute", "done"}

\* the row of the input pair at position p (from 1), as encode derived it
InputRow(p) == row_k(oracle[map[p].key], key_is_block, m, width)

\* some row was changed by the elimination
Eliminated == \E p \in 1 .. Len(v) : v[p] # map[src[p] + 1].value

\* C1: when encode returned a store for an input with distinct keys, decoding
\* a key of the input on that store, with the same width, returns the value
\* the input pairs that key with.
C1_RoundTrip ==
    \A q \in 1 .. Len(got) : \A p \in 1 .. Len(map) :
        (Returned /\ DistinctKeys /\ map[p].key = got[q].key)
            => (got[q].fault = "none" /\ got[q].value = map[p].value)

\* a decode of an input key after an encode of MaxN rows that eliminated
\* across the boundary of two 64-bit words
C1_Witness ==
    /\ Returned /\ Len(map) = MaxN /\ DistinctKeys /\ Eliminated
    /\ \E p, q \in 1 .. Len(map) :
         start_indices[p] \div SNAP_LEN # start_indices[q] \div SNAP_LEN
    /\ \E q \in 1 .. Len(got) : got[q].key \in KeysOf(map) /\ got[q].value # 1

C4_Original ==
    (Called /\ HasDuplicateKey)
        => /\ pc \in {"triangularize", "panic"}
           /\ pc = "panic" => fault = "singular"

\* C4, amended: when m > width >= 2, an input with a duplicate key makes encode
\* fail with "Matrix is singular" during the triangularization, whatever the
\* values of the two pairs; no store is allocated or returned.
C4_DuplicateSingular ==
    (Called /\ HasDuplicateKey /\ sanity(m, width) /\ width >= 2)
        => /\ pc \in {"triangularize", "panic"}
           /\ pc = "panic" => fault = "singular"
           /\ s = << >>

\* the singular failure of an input whose duplicate key has equal values
C4_Witness ==
    /\ pc = "panic" /\ fault = "singular" /\ Len(map) = MaxN
    /\ \E p, q \in 1 .. Len(map) :
         p < q /\ map[p].key = map[q].key /\ map[p].value = map[q].value
    /\ \E p \in 1 .. Len(map) : map[p].key # map[1].key

\* C5: the order in which encode processes the rows is fixed by the input:
\* the sorted rows are the rows of the input pairs, ascending in start_index,
\* and rows with equal start_index stay in their input order.
C5_StableOrder ==
    RowsExist =>
        /\ Len(src) = Len(map)
        /\ {src[p] : p \in 1 .. Len(src)} = 0 .. (Len(map) - 1)
        /\ \A p \in 1 .. Len(src) :
             start_indices[p] = InputRow(src[p] + 1).start_index
        /\ \A p, q \in 1 .. Len(src) :
             p < q => \/ start_indices[p] < start_indices[q]
                      \/ start_indices[p] = start_indices[q] /\ src[p] < src[q]

\* a returned store whose input had two different rows with one start_index
C5_Witness ==
    /\ Returned
    /\ \E p, q \in 1 .. Len(src) :
         p < q /\ start_indices[p] = start_indices[q] /\ Eliminated

\* C9: when m <= width (the empty input included) encode stops at its
\* assertion: no key is hashed, no row is derived and no store is returned.
C9_SanityAssert ==
    (Called /\ m <= width)
        => /\ pc = "panic" /\ fault = "assert"
           /\ \A k \in Keys : oracle[k] = NoHash
           /\ start_indices = << >> /\ offsets = << >> /\ s = << >>

\* the assertion failure of a nonempty input
C9_Witness == pc = "panic" /\ fault = "assert" /\ Len(map) > 0 /\ m = width

\* With m > width >= 2 the only failure of encode is the singular one: it is
\* raised before s is allocated, every row that reaches the back-substitution
\* has a set bit, and no other fault (index out of bounds, overflow,
\* assertion) is raised.
C10_Safe ==
    (Called /\ sanity(m, width) /\ width >= 2)
        => /\ fault \in {"none", "singular"}
           /\ fault = "singular" <=> pc = "panic"
           /\ pc = "panic" => s = << >>
           /\ pc \in {"allocate", "back_substitute", "done"}
                 => \A p \in 1 .. Len(offsets) : pivot_search(offsets[p]).found

Running == pc \in {"triangularize", "allocate", "back_substitute"}

\* the number of steps encode can still take
StepsLeft ==
    CASE pc = "triangularize" -> (2 * Len(map)) + 1 - i
      [] pc = "allocate" -> Len(map) + 1
      [] pc = "back_substitute" -> i + 1
      [] OTHER -> 0

\* the guard of the step of the running loop: the loop variable names a row
CanStep ==
    /\ pc = "triangularize" => i < Len(map)
    /\ pc = "back_substitute" => (i >= 0 /\ i < Len(map) /\ Len(s) = m)

\* C10: with m > width >= 2 encode terminates and ends by returning s or by
\* the singular failure of the triangularization, and by no other fault: the
\* running loop can always take its step, every step lowers the number of
\* steps left, and the step that leaves the loops ends in "done" or "panic"
\* (which C10_Safe makes the singular failure).
C10_EndsInTwoWays ==
    /\ []C10_Safe
    /\ [](Running => CanStep)
    /\ [][Running => (StepsLeft' < StepsLeft /\ (~Running' => pc' \in {"done", "panic"}))]_vars

\* both ends of encode, each after eliminations
C10_Witness ==
    /\ Len(map) = MaxN /\ Eliminated
    /\ pc = "done" \/ (pc = "panic" /\ fault = "singular" /\ i = MaxN - 1)

\* the position in the row vector of bit b of word t (from 1) of a row
BitPosition(start, t, b) ==
    (SNAP_LEN * (start \div SNAP_LEN)) + (SNAP_LEN * (t - 1)) + b

\* C6: for width >= 2 and m > width row_k returns a row: its start_index is
\* in [0, m - width), its offsets have count words, count depending on the
\* width alone, every set bit has its position in
\* [start_index, start_index + width), and a word that begins at or behind
\* start_index + width is zero.
C6_RowBand ==
    (pc = "row_done" /\ width >= 2 /\ m > width)
        => /\ fault = "none"
           /\ start_indices[1] >= 0 /\ start_indices[1] < m - width
           /\ Len(offsets[1]) = ((width + SNAP_LEN - 2) \div SNAP_LEN) + 1
           /\ \A t \in 1 .. Len(offsets[1]) : \A b \in offsets[1][t] :
                /\ BitPosition(start_indices[1], t, b) >= start_indices[1]
                /\ BitPosition(start_indices[1], t, b) < start_indices[1] + width
           /\ \A t \in 1 .. Len(offsets[1]) :
                BitPosition(start_indices[1], t, 0) >= start_indices[1] + width
                    => offsets[1][t] = {}

\* a row of three words whose band begins inside the first word and ends in
\* the second: the bits below the band and the third word were set by the
\* hash and are cleared
C6_Witness ==
    /\ pc = "row_done" /\ fault = "none"
    /\ Len(offsets[1]) = 3
    /\ start_indices[1] % SNAP_LEN # 0
    /\ 0 \in oracle[0].offs[1] /\ 0 \notin offsets[1][1]
    /\ (start_indices[1] % SNAP_LEN) \in offsets[1][1]
    /\ oracle[0].offs[3] # {} /\ offsets[1][3] = {}
    /\ offsets[1][2] # {} /\ offsets[1][2] # oracle[0].offs[2]

AllFilled == \A p \in 1 .. Len(out) : out[p].state = "filled"

\* decode(S, keys[p])
DecodeOf(p) == decode(s, oracle[keys[p]], key_is_block, width)

\* C7: decode_many(S, keys) returns, in the order of keys, decode(S, keys[p])
\* for every position p, as many values as keys; and whatever the interleaving
\* of the threads, once every key is decoded the slot of position p holds
\* what decode(S, keys[p]) gives, the values of the single-threaded call.
C7_DecodeMany ==
    /\ pc = "decoded"
         => /\ Len(got) = Len(keys)
            /\ \A p \in 1 .. Len(keys) :
                 DecodeOf(p).fault = "none" /\ got[p] = DecodeOf(p).value
    /\ pc = "panic" => \E p \in 1 .. Len(keys) : DecodeOf(p).fault = fault
    /\ AllFilled
         => /\ Len(out) = Len(keys)
            /\ \A p \in 1 .. Len(keys) :
                 out[p].fault = DecodeOf(p).fault /\ out[p].value = DecodeOf(p).value
            /\ pc = "decoded" => got = [p \in 1 .. Len(keys) |-> out[p].value]

\* two different keys decoded to different values by both threads, one
\* thread having finished the second key before the other finished the first
C7_Witness ==
    /\ pc = "decoded" /\ AllFilled /\ Len(keys) = MaxDecodeKeys
    /\ got[1] # got[2] /\ got[1] # ValueDefault /\ got[2] # ValueDefault

\* the XOR of store[pos] over the positions pos of a set
RECURSIVE XorOver(_, _)
XorOver(positions, store) ==
    IF positions = {} THEN ValueDefault
    ELSE XorVal(store[Min(positions) + 1], XorOver(positions \ {Min(positions)}, store))

\* the positions of the set bits of the row of keys[p] that are positions of S
PositionsInStore(p) ==
    LET r == row_k(oracle[keys[p]], key_is_block, Len(s), width)
    IN  {pos \in 0 .. (Len(s) - 1) :
            \E t \in 1 .. Len(r.offsets) : \E b \in r.offsets[t] :
                pos = BitPosition(r.start_index, t, b)}

\* C8: for a store S with S.len() > width (and a width >= 1, what the
\* specification asks of a width) every decode completes without a fault, and its value is the XOR of S over the set bits of the row that
\* have a position in S: a word whose window starts at or beyond S.len()
\* contributes nothing, a window cut short only its bits inside S.
C8_Original ==
    (width >= 1 /\ Len(s) > width)
        => \A p \in 1 .. Len(out) :
             out[p].state = "filled"
                 => /\ out[p].fault = "none"
                    /\ out[p].value = XorOver(PositionsInStore(p), s)

\* The same for the widths row_k accepts, width >= 2.
DecodeInsideStore ==
    (Len(s) > width /\ width >= 2)
        => \A p \in 1 .. Len(out) :
             out[p].state = "filled"
                 => /\ out[p].fault = "none"
                    /\ out[p].value = XorOver(PositionsInStore(p), s)

\* a decode that skipped a word of its row and read a window cut short
SkippedAndCutShort ==
    \E w \in Workers :
        /\ task[w] # NoTask /\ task[w].k = Len(task[w].offsets)
        /\ task[w].sum # ValueDefault
        /\ Len(s) % SNAP_LEN # 0
        /\ ((task[w].start_index \div SNAP_LEN) + 1) * SNAP_LEN >= Len(s)
        /\ (task[w].start_index \div SNAP_LEN) * SNAP_LEN < Len(s)
        /\ Len(s) - ((task[w].start_index \div SNAP_LEN) * SNAP_LEN) < SNAP_LEN

\* The XOR of store[pos] over the positions pos of a set, bit by bit: bit k
\* of the sum is the parity of the number of positions whose value has bit k
\* (for values below 2^bits).
RECURSIVE ParityXor(_, _, _)
ParityXor(positions, store, bits) ==
    IF bits = 0 THEN 0
    ELSE ParityXor(positions, store, bits - 1)
         + ((2 ^ (bits - 1))
            * (Cardinality({pos \in positions :
                               (store[pos + 1] \div (2 ^ (bits - 1))) % 2 = 1}) % 2))

\* C11: dot_u64_generic(a, b) is the XOR of b[i] over the i below
\* min(64, b.len()) at which bit i of a is set, zero when there is none: bits
\* of a at positions >= b.len() are ignored, and the unrolled branch
\* (b.len() >= 64) and the loop give this same sum.
C11_DotIsSelectedXor ==
    pc = "dot_done"
        => got[1] = ParityXor({x \in offsets[1][1] : x < Len(s)}, s, StoreBits)

\* a slice shorter than 64 and a word with bits inside and beyond it
C11_Witness ==
    /\ pc = "dot_done" /\ Len(s) = 3
    /\ {1, 2, 63} \subseteq offsets[1][1]
    /\ got[1] = XorVal(s[2], s[3]) /\ got[1] # ValueDefault

\* C12: for every len, also 0 and lengths that are no multiple of 4 or 2, the
\* AVX2 and the SSE2 kernel leave dst as the scalar kernel does: word t
\* becomes dst[t] XOR src[t] for t < len, every word from len on keeps its
\* value, and no word at an index >= len is touched (allocations of exactly
\* len words raise no fault).
C12_KernelsAgree ==
    pc = "xor"
        => \A k \in Kernels :
             got[k] # NoResult
                 => /\ got[k].fault = "none"
                    /\ Len(got[k].x) = Len(offsets[1])
                    /\ \A t \in 1 .. Len(offsets[1]) :
                         got[k].x[t] = IF t <= i
                                       THEN XorWord(offsets[1][t], offsets[2][t])
                                       ELSE offsets[1][t]
                    /\ got["native"] # NoResult => got[k] = got["native"]

\* the three kernels have run on 7 words, in allocations of exactly 7 words:
\* one full AVX2 vector and three SSE2 vectors, and a remainder for each
C12_Witness ==
    /\ pc = "xor" /\ i = 7 /\ Len(offsets[1]) = 7
    /\ \A k \in Kernels : got[k] # NoResult
    /\ got["avx2"].x[7] # offsets[1][7] /\ got["sse2"].x[1] # offsets[1][1]

\* the u64 at a place of the counter-mode stream of a key
StreamU64(key, place) ==
    IF place % 2 = 0 THEN Aes128(key, place \div 2).lo ELSE Aes128(key, place \div 2).hi

\* what a call has to return when `before` places of the stream are used up
Expected(key, op, before) ==
    CASE op = "gen_block" -> Aes128(key, (before + (before % 2)) \div 2)
      [] op = "gen_bool" -> StreamU64(key, before) % 2 = 1
      [] OTHER -> StreamU64(key, before)

\* C13: what a generator returns is a function of its seed and of the calls
\* made so far (the next unused place of the counter-mode stream of the seed,
\* a block beginning at an even place), whatever the mix of gen_u64,
\* gen_usize, gen_block and gen_bool and across refills: two generators with
\* equal seeds driven by the same calls return equal values at every step
\* and are in equal states.
C13_EqualSeedsEqualStreams ==
    (pc = "rng" /\ rng.op # "none")
        => /\ \A g \in 1 .. 2 : rng.ret[g] = Expected(rng.gen[g].key, rng.op, rng.before)
           /\ rng.gen[1].key = rng.gen[2].key
                 => (rng.ret[1] = rng.ret[2] /\ rng.gen[1] = rng.gen[2])

\* two equally seeded generators after a mix of calls, the last one a
\* gen_block that found the pointer odd and at the end of the buffer, so that
\* it refilled the buffer a second time
C13_Witness ==
    /\ pc = "rng" /\ rng.op = "gen_block" /\ rng.blocks < 0
    /\ rng.gen[1].key = rng.gen[2].key
    /\ rng.before = BUFFER_LENGTH_U64 - 1
    /\ rng.gen[1].counter = 2 * BUFFER_LENGTH_U128
    /\ rng.ret[1] = Aes128(rng.gen[1].key, BUFFER_LENGTH_U128)

\* C14: a fresh generator that is asked for blocks only returns the
\* counter-mode stream: the k-th gen_block returns AES_key(k - 1).
C14_BlocksAreCounterMode ==
    (pc = "rng" /\ rng.blocks >= 1)
        => \A g \in 1 .. 2 : rng.ret[g] = Aes128(rng.gen[g].key, rng.blocks - 1)

\* the 513th block, the first after a refill, is AES_key(512)
C14_Witness ==
    /\ pc = "rng" /\ rng.blocks = BUFFER_LENGTH_U128 + 1
    /\ rng.gen[1].counter = 2 * BUFFER_LENGTH_U128
    /\ rng.gen[1].pointer = 2
    /\ rng.ret[1] = Aes128(rng.gen[1].key, 512)

\* the rows whose triangularization step has finished
Processed ==
    IF pc \in {"allocate", "back_substitute", "done"} THEN Len(offsets)
    ELSE IF Len(offsets) = 0 THEN 0 ELSE i

\* the pivot column of row p (from 1): 64 * floor(start_indices / 64) + j
PivotColumn(p) ==
    (SNAP_LEN * (start_indices[p] \div SNAP_LEN)) + pivot_search(offsets[p]).j

\* row k has the bit of column col set
BitAt(k, col) ==
    LET word == (col \div SNAP_LEN) - (start_indices[k] \div SNAP_LEN)
    IN  /\ word >= 0 /\ word < Len(offsets[k])
        /\ (col % SNAP_LEN) \in offsets[k][word + 1]

\* C16: once the step of row p has finished, row p has a pivot (its lowest
\* set bit), no later row has the bit of that pivot column set, in this and
\* in every later state of encode, and the pivot columns of the finished rows
\* are pairwise distinct.
C16_PivotColumnsCleared ==
    /\ \A p \in 1 .. Processed :
         /\ pivot_search(offsets[p]).found
         /\ \A t \in 1 .. Len(offsets[p]) : \A b \in offsets[p][t] :
              PivotColumn(p) <= BitPosition(start_indices[p], t, b)
         /\ \A k \in (p + 1) .. Len(offsets) : ~BitAt(k, PivotColumn(p))
    /\ \A p, q \in 1 .. Processed : p # q => PivotColumn(p) # PivotColumn(q)

\* a returned store of MaxN rows: a later row began at or below the pivot
\* column of an earlier one and was changed by the elimination
C16_Witness ==
    /\ Returned /\ Len(map) = MaxN /\ Eliminated
    /\ \E p, k \in 1 .. Len(offsets) :
         /\ p < k /\ start_indices[k] <= PivotColumn(p)
         /\ v[k] # map[src[k] + 1].value
         /\ PivotColumn(p) \div SNAP_LEN # PivotColumn(k) \div SNAP_LEN

\* C17: for width >= 2 and every start_index, count - 2 <= last <= count: the
\* assertion of row_k holds and the words it masks (offsets[last] when
\* last < count, offsets[last + 1] when last = count - 2) exist; and
\* count * 64 >= (start_index mod 64) + width: the band fits in the count
\* words, and when last = count the band ends with the last word, so that
\* nothing is left to mask.
C17_MaskIndexesFit ==
    (pc = "row_done" /\ width >= 2 /\ m > width)
        => LET count == count_of(width)
               last == last_index_of(start_indices[1], width)
           IN  /\ fault = "none"
               /\ count - 2 <= last /\ last <= count
               /\ Len(offsets[1]) = count
               /\ last < count => (last + 1) \in DOMAIN offsets[1]
               /\ last = count - 2 => (last + 2) \in DOMAIN offsets[1]
               /\ count * SNAP_LEN >= (start_indices[1] % SNAP_LEN) + width
               /\ last = count
                    => (start_indices[1] % SNAP_LEN) + width = count * SNAP_LEN

\* a row with last = count: the band ends with the last of three words
C17_Witness ==
    /\ pc = "row_done" /\ fault = "none" /\ width >= 2
    /\ count_of(width) = 3
    /\ last_index_of(start_indices[1], width) = 3
    /\ (SNAP_LEN - 1) \in offsets[1][3]

\* C18: width >= 1 is enough for row_k: for width = 1 and m > 1 it returns,
\* without underflow and without assertion failure, a row whose band is the
\* single bit start_index.
C18_Original ==
    (pc = "row_done" /\ width = 1 /\ m > 1)
        => /\ fault = "none"
           /\ start_indices[1] < m - 1
           /\ \A t \in 1 .. Len(offsets[1]) : \A b \in offsets[1][t] :
                BitPosition(start_indices[1], t, b) = start_indices[1]

\* C19, as claimed: in the generic path, whenever m - width < count * 64 the
\* reduction modulo count * 64 does not change the result: start_index is the
\* hashed value modulo m - width.
C19_Original ==
    (pc = "row_done" /\ fault = "none" /\ ~key_is_block
        /\ m - width < count_of(width) * SNAP_LEN)
        => start_indices[1] = oracle[0].start % (m - width)

\* C19, amended: in the generic path, whenever m - width divides count * 64
\* the reduction modulo count * 64 does not change the result: start_index is
\* the hashed value modulo m - width, as in the Block path.
C19_NoOpWhenDivides ==
    (pc = "row_done" /\ fault = "none" /\ ~key_is_block
        /\ (count_of(width) * SNAP_LEN) % (m - width) = 0)
        => start_indices[1] = oracle[0].start % (m - width)

\* a hashed value above count * 64 reduced first modulo 128 and then modulo 32
C19_Witness ==
    /\ pc = "row_done" /\ fault = "none" /\ ~key_is_block
    /\ m - width = 32 /\ count_of(width) = 2
    /\ oracle[0].start > count_of(width) * SNAP_LEN
    /\ start_indices[1] = 8

\* the block b_n of the claim: AES(key + n) XOR (key + n), key + n modulo 2^128
HashedBlock(n) ==
    LET x == ValueBits(blk.key.q, blk.key.d + n)
    IN  XorWord(encrypt_block(x, blk.aes), x)

\* the 64-bit word at byte offset off of the stream b_0 || b_1 || ...
StreamWord(off) ==
    LET b == HashedBlock(off \div 16)
    IN  IF off % 16 = 0 THEN b \cap (0 .. (SNAP_LEN - 1))
        ELSE {k - SNAP_LEN : k \in b \ (0 .. (SNAP_LEN - 1))}

\* C20: for a Block key, hash_row_k computes ceil((8 + 8*count)/16) blocks
\* b_n = AES(key + n) XOR (key + n), key + n modulo 2^128; start_index is the
\* low 64 bits of b_0, offsets[t] is the word at byte offset 8 + 8*t of the
\* stream of the blocks, and no byte beyond the computed blocks is read.
C20_BlockStream ==
    pc = "hash_done"
        => LET r == got[1]
           IN  /\ r.fault = "none"
               /\ 16 * r.blocks >= 8 + (8 * blk.count)
               /\ 16 * (r.blocks - 1) < 8 + (8 * blk.count)
               /\ r.start_index = StreamWord(0)
               /\ Len(r.offsets) = blk.count
               /\ \A t \in 0 .. (blk.count - 1) :
                    r.offsets[t + 1] = StreamWord(8 + (8 * t))

\* the key 2^128 - 1 with three blocks: key + 1 wraps to 0 and key + 2 is 1
C20_Witness ==
    /\ pc = "hash_done"
    /\ blk.key = [q |-> 0, d |-> -1]
    /\ got[1].blocks = 3
    /\ got[1].fault = "none"
    /\ got[1].offsets[2] = hash_block_to_block({}, blk.aes) \cap (0 .. (SNAP_LEN - 1))
    /\ got[1].offsets[4] = hash_block_to_block({0}, blk.aes) \cap (0 .. (SNAP_LEN - 1))

\* C2: encoding the 1024 pairs (i, Block(i * i)) of the test with usize keys,
\* eps = 0.01 and width = 87 does not fail as singular.
C2_Original == Len(map) = TestN => fault # "singular"

\* Why the test fails whatever the hash is: the generic path leaves every
\* start_index below count * 64 = 192, so every set bit of every row is in
\* one of the first 192 + 87 - 1 columns, and 1024 rows need 1024 different
\* pivot columns.
TestRowsInFewColumns ==
    pc = "test_triangularize"
        => /\ \A p \in 1 .. TestN :
                /\ start_indices[p] < count_of(width) * SNAP_LEN
                /\ \A t \in 1 .. Len(offsets[p]) : \A b \in offsets[p][t] :
                     BitPosition(start_indices[p], t, b)
                         < (count_of(width) * SNAP_LEN) + width - 1
           /\ i < (count_of(width) * SNAP_LEN) + width - 1
           /\ m = 1035

\* the test never gets past the triangularization
TestNeverTriangularized == pc # "test_triangularized"

\* on the inputs of Spec the passes are the loop
PassesAgreeWithLoop ==
    (pc = "triangularize" /\ i < Len(map))
        => LET a == triangularize_row(i, start_indices, offsets, v)
               b == triangularize_row_passes(i, start_indices, offsets, v)
           IN  /\ a.fault = b.fault
               /\ a.fault = "none" => (a.offsets = b.offsets /\ a.v = b.v)

\* on the inputs of Spec the ranks are the stable sort
RankAgreesWithSort ==
    (pc = "triangularize" /\ i = 0)
        => LET gen == derive_rows_map(map, oracle, key_is_block, m, width)
               rows == ranked(gen, stable_rank(gen))
           IN  /\ gen = derive_rows(map, oracle, key_is_block, m, width)
               /\ rows = sort_by(gen)
               /\ src = column(rows, "src")
               /\ start_indices = column(rows, "start_index")

\* H(x) = AES(x) XOR x of the key q * 2^64 + d (modulo 2^128)
HOf(q, d) == XorWord(encrypt_block(ValueBits(q, d), blk.aes), ValueBits(q, d))
CalledRoute(r) == blk.ret[r].fault # "uncalled"

\* C21: for Block inputs hash_to_block(x), hash_to(x), fixed_aes_hash_single
\* and element i of hash_vec_to(xs) and of fixed_aes_hash(xs), xs[i] = x, are
\* all H(x) = AES(x) XOR x under the one hasher key, and the batched outputs
\* have the length and the order of their input.
C21_RoutesAgree ==
    pc = "aes"
        => /\ \A r \in {"hash_to_block", "hash_to", "fixed_aes_hash_single"} :
                CalledRoute(r)
                    => /\ blk.ret[r].fault = "none"
                       /\ blk.ret[r].y = HOf(blk.keys[blk.at].q, blk.keys[blk.at].d)
           /\ \A r \in {"hash_vec_to", "fixed_aes_hash"} :
                CalledRoute(r)
                    => /\ blk.ret[r].fault = "none"
                       /\ Len(blk.ret[r].y) = Len(blk.keys)
                       /\ \A n \in 1 .. Len(blk.keys) :
                            blk.ret[r].y[n] = HOf(blk.keys[n].q, blk.keys[n].d)
           /\ \A r1, r2 \in {"hash_to_block", "hash_to", "fixed_aes_hash_single"} :
                (CalledRoute(r1) /\ CalledRoute(r2)) => blk.ret[r1].y = blk.ret[r2].y
           /\ \A r1 \in {"hash_to_block", "hash_to", "fixed_aes_hash_single"} :
              \A r2 \in {"hash_vec_to", "fixed_aes_hash"} :
                (CalledRoute(r1) /\ CalledRoute(r2))
                    => blk.ret[r1].y = blk.ret[r2].y[blk.at]

\* all five routes were taken on a batch of two different blocks, the second
\* of which is the one hashed alone
C21_Witness ==
    /\ pc = "aes"
    /\ Len(blk.keys) = 2 /\ blk.at = 2
    /\ blk.keys[1] # blk.keys[2]
    /\ \A r \in Routes \ {"vecs"} : CalledRoute(r)
    /\ blk.ret["hash_vec_to"].y[1] # blk.ret["hash_vec_to"].y[2]
    /\ blk.ret["hash_to"].y = blk.ret["fixed_aes_hash"].y[2]

\* C29: fixed_aes_hash_block_to_block_vecs(x, len) returns x.len() * len
\* blocks, the one at index i * len + j being H(x[i] + j mod 2^128).
C29_Original ==
    (pc = "aes" /\ CalledRoute("vecs") /\ blk.len >= 1)
        => /\ blk.ret["vecs"].fault = "none"
           /\ Len(blk.ret["vecs"].y) = Len(blk.keys) * blk.len
           /\ \A n \in 1 .. Len(blk.keys) : \A j \in 0 .. (blk.len - 1) :
                blk.ret["vecs"].y[((n - 1) * blk.len) + j + 1]
                    = HOf(blk.keys[n].q, blk.keys[n].d + j)

\* what the code does instead: it returns no block at all
VecsReturnsNothing ==
    (pc = "aes" /\ CalledRoute("vecs") /\ blk.len >= 1)
        => blk.ret["vecs"] = [y |-> << >>, fault |-> "none"]

\* the number of words of the counter-mode stream that lie before the word
\* the pointer is at
StreamPos(g) == (2 * g.counter) - BUFFER_LENGTH_U64 + g.pointer

\* C22 and C23 are properties of the steps that make a call; every call
\* uses up places of the stream, so these are the steps that change rng.places.

\* the word at index p (from 0) of the buffer read as u64s
BufferWord(g, p) ==
    IF p % 2 = 0 THEN g.buffer[(p \div 2) + 1].lo ELSE g.buffer[(p \div 2) + 1].hi

\* C22: the pointer stays in [0, 1024] and the counter a multiple of 512; a
\* call refills exactly when its read finds the pointer at 1024 (for
\* gen_block, after the pointer was rounded up); the refill makes the buffer
\* the encryptions of counter .. counter + 511, advances the counter by 512
\* and sets the pointer to 0; gen_u64 then returns word p of the buffer and
\* advances the pointer by one.
C22_PointerCounterRefill ==
    [][pc = "rng"
        => \A n \in 1 .. 2 :
            LET a == rng.gen[n]
                b == rng'.gen[n]
                at == IF rng'.op = "gen_block" THEN a.pointer + (a.pointer % 2)
                      ELSE a.pointer
                refilled == b.counter # a.counter
                p == IF refilled THEN 0 ELSE at
            IN  /\ a.pointer \in 0 .. BUFFER_LENGTH_U64
                /\ b.pointer \in 0 .. BUFFER_LENGTH_U64
                /\ a.counter % BUFFER_LENGTH_U128 = 0
                /\ b.counter % BUFFER_LENGTH_U128 = 0
                /\ refilled <=> at = BUFFER_LENGTH_U64
                /\ refilled
                     => /\ b.counter = a.counter + BUFFER_LENGTH_U128
                        /\ b.buffer = [t \in 1 .. BUFFER_LENGTH_U128 |->
                                          Aes128(a.key, a.counter + (t - 1))]
                /\ ~refilled => b.buffer = a.buffer
                /\ rng'.op \in {"gen_u64", "gen_usize"}
                     => /\ rng'.ret[n] = BufferWord(b, p)
                        /\ b.pointer = p + 1
                /\ rng'.op = "gen_block" => b.pointer = p + 2]_(rng.places)

\* a gen_u64 that found the pointer at 1024 for the second time: it refilled
\* the buffer with the blocks 512 .. 1023 and returned word 0 of it
C22_Witness ==
    /\ pc = "rng" /\ rng.op = "gen_u64"
    /\ rng.before = BUFFER_LENGTH_U64
    /\ rng.gen[1].counter = 2 * BUFFER_LENGTH_U128
    /\ rng.gen[1].pointer = 1
    /\ rng.gen[1].buffer[BUFFER_LENGTH_U128] = Aes128(rng.gen[1].key, 1023)
    /\ rng.ret[1] = Aes128(rng.gen[1].key, BUFFER_LENGTH_U128).lo

\* C23: gen_block returns a whole buffer block: called with an odd pointer p
\* it skips word p and returns block (p + 1) / 2 (block 0 of a fresh refill
\* when p + 1 = 1024), leaving the pointer even and 2 beyond the block's
\* first word. Every call returns words of the stream from the position of
\* the pointer on and leaves the pointer behind them, and the position never
\* goes back: so a skipped word is not returned by a later call, and a block
\* shares no word with a value returned before it.
C23_WholeBlocks ==
    [][pc = "rng"
        => \A n \in 1 .. 2 :
            LET a == rng.gen[n]
                b == rng'.gen[n]
                skip == a.pointer % 2
                first == IF a.pointer + skip = BUFFER_LENGTH_U64 THEN 0
                         ELSE a.pointer + skip
            IN  /\ StreamPos(b) > StreamPos(a)
                /\ rng'.op = "gen_block"
                     => /\ rng'.ret[n] = b.buffer[(first \div 2) + 1]
                        /\ b.pointer = first + 2
                        /\ b.pointer % 2 = 0
                        /\ rng'.ret[n].lo = StreamU64(a.key, StreamPos(a) + skip)
                        /\ rng'.ret[n].hi = StreamU64(a.key, StreamPos(a) + skip + 1)
                        /\ (StreamPos(a) + skip) % 2 = 0
                        /\ StreamPos(b) = StreamPos(a) + skip + 2
                /\ rng'.op \in {"gen_u64", "gen_usize"}
                     => /\ rng'.ret[n] = StreamU64(a.key, StreamPos(a))
                        /\ StreamPos(b) = StreamPos(a) + 1]_(rng.places)

\* gen_u64, gen_block, gen_u64: the block skipped word 1 and is block 1, and
\* the gen_u64 after it returned word 4, not the skipped word
C23_Witness ==
    /\ pc = "rng" /\ rng.op = "gen_u64"
    /\ rng.before = 4 /\ rng.places = 5
    /\ rng.gen[1].pointer = 5
    /\ rng.ret[1] = StreamU64(rng.gen[1].key, 4)
    /\ rng.ret[1] # StreamU64(rng.gen[1].key, 1)

\* what C24 says of one step
RowsKeepTheirPlace ==
    pc \in {"triangularize", "back_substitute"}
        => /\ start_indices' = start_indices
           /\ src' = src
           /\ Len(offsets') = Len(offsets) /\ Len(v') = Len(v)
           /\ \A p, q \in 1 .. Len(start_indices) :
                p < q => start_indices[p] <= start_indices[q]
           /\ pc = "triangularize"
                => \A k \in 1 .. Len(offsets) :
                     (offsets'[k] # offsets[k] \/ v'[k] # v[k])
                        => /\ k > i + 1
                           /\ pivot_search(offsets[i + 1]).found
                           /\ start_indices[k] <= PivotColumn(i + 1)
           /\ pc = "back_substitute" => (offsets' = offsets /\ v' = v)
           /\ \A k \in 1 .. Len(offsets) :
                (pc = "back_substitute" \/ k <= i + 1)
                    => /\ offsets'[k] = offsets[k] /\ v'[k] = v[k]
                       /\ pivot_search(offsets'[k]) = pivot_search(offsets[k])

\* C24: a step of the triangularization or of the back-substitution leaves
\* start_indices and the order of the rows alone, the rows are sorted by
\* start_index, step i of the triangularization changes offsets[k] and v[k]
\* only for rows k > i that start at or below the pivot column of row i, and
\* no step changes a row whose own step has begun: the back-substitution
\* changes no row at all, so it finds for every row the pivot the
\* triangularization found.
C24_RowsKeepTheirPlace == [][RowsKeepTheirPlace]_vars

\* the back-substitution at the first row of MaxN, after the elimination
\* changed the offsets and the value of a later row that kept its place
C24_Witness ==
    /\ pc = "back_substitute" /\ i = 0 /\ Len(map) = MaxN
    /\ \E k \in 2 .. Len(offsets) :
         /\ start_indices[k] = InputRow(src[k] + 1).start_index
         /\ offsets[k] # InputRow(src[k] + 1).offsets
         /\ v[k] # map[src[k] + 1].value
         /\ start_indices[k] <= PivotColumn(1)
    /\ offsets[1] = InputRow(src[1] + 1).offsets

\* the four calls of SpecLinear have ended
LinearCalled == \A p \in 1 .. 4 : blk.ret[p].fault # "uncalled"

\* the four calls returned, and the results are related as a linear map relates them
LinearResults ==
    /\ \A p \in 1 .. 4 : blk.ret[p].fault = "none"
    /\ blk.ret[3].value = XorVal(blk.ret[1].value, blk.ret[2].value)
    /\ blk.ret[4].value = ValueDefault
    /\ blk.stores = LinearStores(s, blk.stores[2])

\* C25 as stated: for stores S1 and S2 of one length above the width (a width
\* of at least 1) and any key, decode returns on S1, S2, S1 ^ S2 and the zero
\* store, decode(S1 ^ S2, k) = decode(S1, k) ^ decode(S2, k), and decode of the
\* zero store is zero.
C25_Original ==
    (LinearCalled /\ width >= 1 /\ Len(s) > width) => LinearResults

\* the same from width 2 on, where row_k returns a row
DecodeLinearFromWidthTwo ==
    (LinearCalled /\ width >= 2 /\ Len(s) > width) => LinearResults

\* with S1 # S2 and a row that reads a position where they differ
DecodeLinearSeen ==
    /\ LinearCalled /\ width >= 2 /\ Len(s) > width
    /\ blk.ret[1].value # blk.ret[2].value
    /\ blk.ret[3].value # ValueDefault

\* encode derived and sorted the rows of its n >= 1 pairs
RowsDerived == pc # "new" /\ Len(map) > 0 /\ Len(start_indices) = Len(map)

\* the columns of the bits of the row of input pair p, as row_k returned it:
\* the row read as an m-bit vector
InputColumns(p) ==
    LET r == InputRow(p)
    IN  UNION {{BitPosition(r.start_index, t, b) : b \in r.offsets[t]} :
                  t \in 1 .. Len(r.offsets)}

\* the columns some row of the input has a bit in
CoveredColumns == UNION {InputColumns(p) : p \in 1 .. Len(map)}

\* the rows of the pairs P sum to the zero vector over GF(2)
SumsToZero(P) ==
    \A c \in CoveredColumns : Cardinality({p \in P : c \in InputColumns(p)}) % 2 = 0

\* the generated rows are linearly dependent over GF(2)
RowsDependent == \E P \in (SUBSET (1 .. Len(map))) \ {{}} : SumsToZero(P)

\* C26: once the rows are generated, encode panics with "Matrix is singular"
\* exactly when the n rows, read as m-bit vectors, are linearly dependent over
\* GF(2): the only panic is that one and it comes with dependent rows only;
\* the triangularization ends (and encode goes on to return a store of m
\* values, without a panic) with independent rows only, which cover at least
\* n columns. The rows are a function of the input and the hashes of its
\* keys, which no later step changes.
C26_SingularIffDependent ==
    RowsDerived =>
        /\ fault = "singular" <=> pc = "panic"
        /\ pc = "panic" => RowsDependent
        /\ pc = "allocate" => (~RowsDependent /\ Len(map) <= Cardinality(CoveredColumns))
        /\ pc = "done" => Len(s) = m
        /\ fault \in {"none", "singular"}

\* three rows of distinct keys, no two of them dependent, that sum to zero:
\* the panic came at the last row, after two eliminations
C26_Witness ==
    /\ RowsDerived /\ DistinctKeys /\ Len(map) = MaxN
    /\ pc = "panic" /\ fault = "singular" /\ i = MaxN - 1
    /\ \A P \in (SUBSET (1 .. Len(map))) \ {{}} : SumsToZero(P) <=> P = 1 .. Len(map)
    /\ Cardinality(CoveredColumns) >= MaxN

\* the pivot columns of the rows
PivotColumns == {PivotColumn(p) : p \in 1 .. Len(offsets)}

\* one step of the back-substitution, the step of row i (from 0)
BackSubstitutionWrites ==
    pc = "back_substitute"
        => /\ pc' # "panic"
           /\ PivotColumn(i + 1) < m - 1
           /\ s[PivotColumn(i + 1) + 1] = ValueDefault
           /\ Len(s') = m
           /\ \A t \in 1 .. m : t # PivotColumn(i + 1) + 1 => s'[t] = s[t]
           /\ \A p \in 1 .. i : s[PivotColumn(p) + 1] = ValueDefault
           /\ pc' = "done"
                => /\ \A t \in 1 .. m : (t - 1) \notin PivotColumns => s'[t] = ValueDefault
                   /\ s'[m] = ValueDefault
                   /\ Cardinality({t \in 1 .. m : (t - 1) \notin PivotColumns})
                          = m - Len(map)

\* C27: every step of the back-substitution writes S at the pivot column of
\* its row and nowhere else; that column is below m - 1 and S holds
\* Value::default() there when the sum of the row is computed, as it does at
\* the pivots of the rows still to come; the returned store holds
\* Value::default() at the m - n positions that are no pivot, the last
\* position m - 1 among them.
C27_PivotsWrittenOnce == [][BackSubstitutionWrites]_vars

\* a store returned for MaxN pairs: every pivot position holds a value that
\* is not the default, one of them a sum over an earlier written position
C27_Witness ==
    /\ Returned /\ Len(map) = MaxN /\ Len(got) = 0
    /\ \A p \in 1 .. Len(offsets) : s[PivotColumn(p) + 1] # ValueDefault
    /\ \E p \in 1 .. Len(offsets) : s[PivotColumn(p) + 1] # v[p]
    /\ m > MaxN + 1

\* the columns of the bits of row k (from 1) in the state, and in the next one
RowColumns(k) ==
    UNION {{BitPosition(start_indices[k], t, b) : b \in offsets[k][t]} :
              t \in 1 .. Len(offsets[k])}
RowColumnsNext(k) ==
    UNION {{BitPosition(start_indices[k], t, b) : b \in offsets'[k][t]} :
              t \in 1 .. Len(offsets'[k])}

\* the passes k (from 0) of the loop `for k in (i + 1)..n` of row i (from 0)
\* that come before its break
PassesOf(row) == (row + 1) .. (loop_end(row, PivotColumn(row + 1), start_indices) - 1)

\* one step of the triangularization, the step of a row i that has a pivot
EliminationXorsInside ==
    (pc = "triangularize" /\ i < Len(map) /\ pivot_search(offsets[i + 1]).found)
        => /\ pc' # "panic"
           /\ \A k \in PassesOf(i) :
                LET j == pivot_search(offsets[i + 1]).j
                    count == Len(offsets[k + 1])
                    id_offset == (start_indices[k + 1] \div SNAP_LEN)
                                     - (start_indices[i + 1] \div SNAP_LEN)
                    word == (j \div SNAP_LEN) - id_offset
                IN  /\ id_offset >= 0
                    /\ word >= 0 /\ word < count
                    /\ k # i
                    /\ (j % SNAP_LEN) \in offsets[k + 1][word + 1]
                         => /\ id_offset <= count
                            /\ count <= Len(offsets[i + 1])
                            /\ \A t \in 1 .. id_offset : offsets[i + 1][t] = {}
                            /\ RowColumnsNext(k + 1)
                                  = XorWord(RowColumns(k + 1), RowColumns(i + 1))
                            /\ \A c \in RowColumnsNext(k + 1) :
                                 /\ c >= start_indices[k + 1]
                                 /\ c < start_indices[k + 1] + width

\* C28: in every pass of the elimination loop of row i, id_offset is not
\* negative and the tested word j / 64 - id_offset is a word of row k; when
\* the pass adds row i to row k, the ranges offsets[i][id_offset .. count) and
\* offsets[k][0 .. count - id_offset) exist, i and k are different rows, the
\* words of row i below id_offset are zero, row k becomes the sum of the two
\* rows read as m-bit vectors, and every bit of it lies in
\* [start_indices[k], start_indices[k] + width).
C28_XorsStayInside == [][EliminationXorsInside]_vars

\* a row was added to a row that begins in the next 64-bit word (id_offset
\* = 1) and to one that begins in the same word, both changed by it
C28_Witness ==
    /\ pc = "triangularize" /\ i = 1 /\ Len(map) = MaxN
    /\ start_indices[2] \div SNAP_LEN = start_indices[1] \div SNAP_LEN
    /\ start_indices[3] \div SNAP_LEN = (start_indices[1] \div SNAP_LEN) + 1
    /\ offsets[2] # InputRow(src[2] + 1).offsets
    /\ offsets[3] # InputRow(src[3] + 1).offsets
    /\ offsets[1][1] = {}

\* the storage has ceil(len / ITEM_BITS) words and no bit at a position >= len
WellFormedBits(bs) ==
    /\ Len(bs.data) = ceil_div(bs.len, ITEM_BITS)
    /\ \A t \in 1 .. Len(bs.data) : \A b \in bs.data[t] :
         (ITEM_BITS * (t - 1)) + b < bs.len

\* the last bit reads as bit, by get(len - 1) and by pop()
ReadsBack(bs, bit) ==
    /\ get(bs, bs.len - 1) = [bit |-> bit, fault |-> "none"]
    /\ pop(bs).fault = "none" /\ pop(bs).bit = bit

\* C30 as stated: after any sequence of push and pop (and get) on a
\* constructed BitString, the storage has ceil(len / 64) words, every bit at a
\* position >= len is zero, and after push(b) both get(len - 1) and pop()
\* give b.
C30_Original ==
    pc = "bits" => /\ WellFormedBits(blk.bs)
                   /\ blk.op = "push" => ReadsBack(blk.bs, blk.bit)

\* the part about the pushed bit alone
PushedBitReadsBack == (pc = "bits" /\ blk.op = "push") => ReadsBack(blk.bs, blk.bit)

\* what holds: pop never removes a word, so data has at least ceil(len / 64)
\* words, and a push on a BitString of exactly that many words, clean above
\* len, keeps it so and reads back
StorageNotShort == Len(blk.bs.data) >= ceil_div(blk.bs.len, ITEM_BITS)
PushOnWellFormedStep ==
    (pc = "bits" /\ WellFormedBits(blk.bs) /\ blk'.op = "push" /\ blk'.calls = blk.calls + 1)
        => (pc' = "bits" /\ WellFormedBits(blk'.bs) /\ ReadsBack(blk'.bs, blk'.bit))
PushOnWellFormed == [][PushOnWellFormedStep]_vars

====
